---- MODULE Spec2Model ----
(***************************************************************************)
(* A model of the GATT object model of WebBluetooth (src/src/gatt.ts):     *)
(* BluetoothDevice -> BluetoothRemoteGATTServer -> BluetoothRemoteGATT-    *)
(* Service -> ...Characteristic -> ...Descriptor, on top of the SimpleBLE  *)
(* binding (src/unnamed/part_001, src/lib/peripheral.cpp).                 *)
(*                                                                         *)
(* One Device with one peripheral is modelled.  Every public method is one *)
(* action; the action records in lastOp what the call did: its outcome     *)
(* (the string "ok" or the message of the Error it threw), the binding     *)
(* calls it made and the events it dispatched, in order.  The caller then  *)
(* takes the result (Return) before the next call or callback runs:        *)
(* JavaScript runs each call and each callback to completion.              *)
(*                                                                         *)
(* Objects are records that contain their children: a Service record holds *)
(* its Characteristic records in chars, a Characteristic record its        *)
(* Descriptor records in descriptors.  Besides the server's own list the   *)
(* model follows the objects the caller holds: one Service (svc), the      *)
(* Characteristics in its _chars list, and one Descriptor (dsc).           *)
(*                                                                         *)
(* The Bluetooth Hub (src/unnamed/part_000) is modelled with its registry  *)
(* of devices and its requests for devices.                                *)
(***************************************************************************)
EXTENDS Integers, Sequences, FiniteSets, TLC

(***************************************************************************)
(* Bounds of the model.                                                    *)
(***************************************************************************)
MaxPending  == 1   \* disconnection callbacks queued for delivery
MaxNotes    == 2   \* notification callbacks queued for delivery
MaxChars    == 2   \* length of a Service's _chars list
MaxResults  == 2   \* scan results accumulated in one scan cycle
MaxDevices  == 2   \* length of the Hub's registry when a request starts
MaxAdapters == 2   \* adapters the binding reports
MaxFlights  == 1   \* requests and scans waiting for a timer at a time
MaxOverlap  == 2   \* the same, where operations overlap

(***************************************************************************)
(* UUID strings as the binding reports them and as callers spell them.     *)
(***************************************************************************)
Undefined == "undefined"          \* the JavaScript value undefined (argument left out)
DIS       == "0000180a-0000-1000-8000-00805f9b34fb"
DIS_UPPER == "0000180A-0000-1000-8000-00805F9B34FB"
LED       == "e95dd91d-251d-470a-a062-fa1922dfa9a8"
MODEL     == "00002a24-0000-1000-8000-00805f9b34fb"
TEXT      == "e95d93ee-251d-470a-a062-fa1922dfa9a8"
CCCD      == "00002902-0000-1000-8000-00805f9b34fb"
InvalidUUID == "InvalidUUID"      \* the normalizer rejected its input

\* The UUID arguments callers pass to the service, characteristic and
\* descriptor lookups: left out, canonical strings, a 16-bit number, a
\* standard name, and a string that is no UUID.
ServiceArgs == {Undefined, DIS, "0x180a", LED, "bogus"}
CharArgs    == {Undefined, MODEL, "model_number_string", "bogus"}
DescArgs    == {Undefined, CCCD, "0x2902", "bogus"}

\* The part of the normalizer shared by the three UUID kinds: canonical
\* strings stay, other letter case is lowered, 16-bit numbers are put on the
\* Bluetooth base UUID.
CanonicalUUID(u) ==
    CASE u \in {DIS, LED, MODEL, TEXT, CCCD} -> u
      [] u = DIS_UPPER -> DIS
      [] u = "0x180a"  -> DIS
      [] u = "0x2902"  -> CCCD
      [] OTHER         -> InvalidUUID

getServiceUUID(u) ==
    IF u = "device_information" THEN DIS ELSE CanonicalUUID(u)

getCharacteristicUUID(u) ==
    IF u = "model_number_string" THEN MODEL ELSE CanonicalUUID(u)

getDescriptorUUID(u) == CanonicalUUID(u)

(***************************************************************************)
(* The peripheral's GATT table as simpleble_peripheral_services_get        *)
(* reports it: services, each with characteristics, each with descriptor   *)
(* UUIDs.                                                                  *)
(***************************************************************************)
\* The can... flags are what PeripheralWrapper::ServicesGet sets from the
\* peripheral's characteristic; a characteristic is read-only unless said
\* otherwise.  canNotify also says whether the characteristic accepts a
\* subscription.  The binding's Characteristic shows uuid and descriptors.
NChar(u, ds) ==
    [ uuid |-> u, descriptors |-> ds, canRead |-> TRUE,
      canWriteRequest |-> FALSE, canWriteCommand |-> FALSE,
      canNotify |-> FALSE, canIndicate |-> FALSE ]

\* A characteristic that can be written as well.
Writable(c) == [ c EXCEPT !.canWriteRequest = TRUE, !.canWriteCommand = TRUE ]
NSvc(u, cs)  == [uuid |-> u, characteristics |-> cs]

Peripherals ==
    { << NSvc(DIS, << NChar(MODEL, <<>>) >>),
         NSvc(LED, << Writable(NChar(TEXT, << CCCD >>)) >>) >>,
      << NSvc(DIS, << NChar(MODEL, << CCCD >>) >>),
         NSvc(DIS, <<>>) >> }

\* A peripheral whose characteristic accepts subscriptions and notifies.
NotifyPeripherals ==
    { << NSvc(LED, << [ Writable(NChar(TEXT, << CCCD >>))
                          EXCEPT !.canNotify = TRUE ] >>) >> }

\* Byte payloads read from, written to and notified by the peripheral.
Payloads == { <<1>>, <<2, 3>> }
NoValue  == << -1 >>              \* _value === undefined

VARIABLES
    table,            \* the peripheral's GATT table (fixed per behaviour)
    nativeConnected,  \* the link, as the native layer sees it
    cbRegistered,     \* a disconnected-callback is registered natively
    pending,          \* disconnected-callbacks queued on the event loop
    connected,        \* BluetoothRemoteGATTServer._connected
    services,         \* BluetoothRemoteGATTServer._services
    svc,              \* the Service object the caller holds: <<>> or << s >>
    dsc,              \* the Descriptor object the caller holds: <<>> or << d >>
    subs,             \* native subscriptions, per native service index
    notes,            \* notification callbacks queued on the event loop
    devices,          \* Bluetooth._devices, the Hub's registry
    request,          \* the options and the scan results of the last request
    hub,              \* Bluetooth._adapters and Bluetooth._adapter
    scanning,         \* per adapter of the binding: its scan is active
    flights,          \* the requests and scans that are waiting for a timer
    lastOp            \* what the last call did

vars == << table, nativeConnected, cbRegistered, pending, connected, services,
           svc, dsc, subs, notes, devices, request, hub, scanning, flights,
           lastOp >>

\* The notification state: subs[i] is <<>> when the characteristic of native
\* service i has no subscription, << k >> when its callback is bound to the
\* k-th Characteristic of the Service the caller holds, and << 0 >> when it is
\* bound to a Characteristic the caller let go of.  Every service of
\* Peripherals has at most one characteristic.
noteVars == << subs, notes >>

NoSubs == [ i \in 1..Len(table) |-> <<>> ]

gattVars == << connected, services, svc, dsc >>

scanVars == << hub, scanning, flights >>

hubVars == << devices, request, scanVars >>

\* No request is running.  adapter is the adapter on which the request
\* started its scan, signal the state of its AbortSignal.
NoRequest ==
    [ filter |-> Undefined, filters |-> <<>>, results |-> <<>>,
      adapter |-> 0, signal |-> "none" ]

\* The record of one call.  pre is gatt.connected when the call was made.
Op(name, obj, arg, val, outcome, calls, events, result) ==
    [ op |-> name, obj |-> obj, arg |-> arg, val |-> val, pre |-> connected,
      outcome |-> outcome, calls |-> calls, events |-> events, result |-> result ]

Ev(target, type) == << target, type >>

\* No call has a result outstanding.
Idle == [ op |-> "idle", obj |-> 0, arg |-> Undefined, val |-> NoValue,
          pre |-> FALSE, outcome |-> "ok", calls |-> <<>>, events |-> <<>>,
          result |-> <<>> ]

\* JavaScript's !x for an array x: every array, also the empty one, is truthy.
ArrayIsFalsy(a) == FALSE

\* JavaScript's !uuid for a UUID argument.
IsFalsy(u) == u = Undefined

(***************************************************************************)
(* Construction of the Hub: new Bluetooth(bindings) with a binding that    *)
(* reports count adapters.  Adapter handles are the indexes 0..count-1.    *)
(***************************************************************************)
NoAdapters == "requestDevice error: no adapters found"

AdapterInfo(handle) ==
    [ identifier |-> << "hci", handle >>, address |-> << "address", handle >> ]

\* The Hub as it would be if the loop over the adapters kept the last
\* handle, not the first.
Bluetooth_lastAdapter(count) ==
    IF count = 0
    THEN [ usable |-> FALSE, adapters |-> <<>>, adapter |-> 0 ]
    ELSE [ usable |-> TRUE,
           adapters |-> [ i \in 1..count |-> AdapterInfo(i - 1) ],
           adapter |-> count - 1 ]

\* usable is FALSE when the constructor threw: there is no Hub object.
Bluetooth(count) ==
    IF count = 0
    THEN [ usable |-> FALSE, adapters |-> <<>>, adapter |-> 0 ]
    ELSE [ usable |-> TRUE,
           adapters |-> [ i \in 1..count |-> AdapterInfo(i - 1) ],
           adapter |-> 0 ]

(***************************************************************************)
(* Construction: new BluetoothDevice creates its BluetoothRemoteGATTServer *)
(* disconnected and with an empty service list.                            *)
(***************************************************************************)
InitWith(tables) ==
    /\ table \in tables
    /\ nativeConnected = FALSE
    /\ cbRegistered = FALSE
    /\ pending = 0
    /\ connected = FALSE
    /\ services = <<>>
    /\ svc = <<>>
    /\ dsc = <<>>
    /\ subs = NoSubs
    /\ notes = <<>>
    /\ devices = <<>>
    /\ request = NoRequest
    /\ hub = Bluetooth(1)
    /\ scanning = << FALSE >>
    /\ flights = <<>>
    /\ lastOp = [ op |-> "new BluetoothDevice", obj |-> 0, arg |-> Undefined,
                  val |-> NoValue, pre |-> FALSE, outcome |-> "ok",
                  calls |-> <<>>, events |-> <<>>, result |-> <<>> ]

Init == InitWith(Peripherals)

(***************************************************************************)
(* Bookkeeping of the model, not a field of the program: stale marks the   *)
(* objects that were built before the latest successful connect().         *)
(***************************************************************************)
StaleDescriptor(d) == [ d EXCEPT !.stale = TRUE ]

StaleCharacteristic(c) ==
    [ c EXCEPT !.stale = TRUE,
               !.descriptors = [ j \in 1..Len(@) |-> StaleDescriptor(@[j]) ] ]

StaleService(s) ==
    [ s EXCEPT !.stale = TRUE,
               !.chars = [ k \in 1..Len(@) |-> StaleCharacteristic(@[k]) ],
               !.services = [ i \in 1..Len(@) |-> [ @[i] EXCEPT !.stale = TRUE ] ] ]

\* connect() as it would be with _connected set before the binding's answer
\* is looked at.
connect_flagBeforeCheck ==
    IF connected
    THEN /\ lastOp' = Op("connect", 0, Undefined, NoValue,
                         "Device already connected", <<>>, <<>>, <<>>)
         /\ UNCHANGED << noteVars, hubVars, table, nativeConnected, cbRegistered, pending,
                         gattVars >>
    ELSE \E ret \in BOOLEAN :
         IF ~ret
         THEN /\ connected' = TRUE
              /\ lastOp' = Op("connect", 0, Undefined, NoValue,
                              "Device refused to connect",
                              << "simpleble_peripheral_connect" >>, <<>>, <<>>)
              /\ UNCHANGED << noteVars, hubVars, table, nativeConnected, cbRegistered, pending,
                              services, svc, dsc >>
         ELSE /\ nativeConnected' = TRUE
              /\ services' = <<>>
              /\ connected' = TRUE
              /\ cbRegistered' = TRUE
              /\ lastOp' = Op("connect", 0, Undefined, NoValue, "ok",
                              << "simpleble_peripheral_connect",
                                 "simpleble_peripheral_set_callback_on_disconnected" >>,
                              << Ev("Device", "gattserverdisconnected"),
                                 Ev("Hub", "gattserverdisconnected") >>, <<>>)
              /\ svc' = [ i \in 1..Len(svc) |-> StaleService(svc[i]) ]
              /\ dsc' = [ i \in 1..Len(dsc) |-> StaleDescriptor(dsc[i]) ]
              /\ UNCHANGED << noteVars, hubVars, table, pending >>

\* connect() as it would be without the "already connected" check.
connect_noConnectedCheck ==
    \E ret \in BOOLEAN :
         IF ~ret
         THEN /\ lastOp' = Op("connect", 0, Undefined, NoValue,
                              "Device refused to connect",
                              << "simpleble_peripheral_connect" >>, <<>>, <<>>)
              /\ UNCHANGED << noteVars, hubVars, table, nativeConnected, cbRegistered, pending,
                              gattVars >>
         ELSE /\ nativeConnected' = TRUE
              /\ services' = <<>>
              /\ connected' = TRUE
              /\ cbRegistered' = TRUE
              /\ lastOp' = Op("connect", 0, Undefined, NoValue, "ok",
                              << "simpleble_peripheral_connect",
                                 "simpleble_peripheral_set_callback_on_disconnected" >>,
                              << Ev("Device", "gattserverdisconnected"),
                                 Ev("Hub", "gattserverdisconnected") >>, <<>>)
              /\ svc' = [ i \in 1..Len(svc) |-> StaleService(svc[i]) ]
              /\ dsc' = [ i \in 1..Len(dsc) |-> StaleDescriptor(dsc[i]) ]
              /\ UNCHANGED << noteVars, hubVars, table, pending >>

\* connect() as it would be if it dispatched its event on the Device alone.
connect_deviceOnly ==
    IF connected
    THEN /\ lastOp' = Op("connect", 0, Undefined, NoValue,
                         "Device already connected", <<>>, <<>>, <<>>)
         /\ UNCHANGED << noteVars, hubVars, table, nativeConnected, cbRegistered, pending,
                         gattVars >>
    ELSE \E ret \in BOOLEAN :
         IF ~ret
         THEN /\ lastOp' = Op("connect", 0, Undefined, NoValue,
                              "Device refused to connect",
                              << "simpleble_peripheral_connect" >>, <<>>, <<>>)
              /\ UNCHANGED << noteVars, hubVars, table, nativeConnected, cbRegistered, pending,
                              gattVars >>
         ELSE /\ nativeConnected' = TRUE
              /\ services' = <<>>
              /\ connected' = TRUE
              /\ cbRegistered' = TRUE
              /\ lastOp' = Op("connect", 0, Undefined, NoValue, "ok",
                              << "simpleble_peripheral_connect",
                                 "simpleble_peripheral_set_callback_on_disconnected" >>,
                              << Ev("Device", "gattserverdisconnected") >>, <<>>)
              /\ svc' = [ i \in 1..Len(svc) |-> StaleService(svc[i]) ]
              /\ dsc' = [ i \in 1..Len(dsc) |-> StaleDescriptor(dsc[i]) ]
              /\ UNCHANGED << noteVars, hubVars, table, pending >>

(***************************************************************************)
(* BluetoothRemoteGATTServer.connect                                       *)
(***************************************************************************)
connect ==
    IF connected
    THEN /\ lastOp' = Op("connect", 0, Undefined, NoValue,
                         "Device already connected", <<>>, <<>>, <<>>)
         /\ UNCHANGED << noteVars, hubVars, table, nativeConnected, cbRegistered, pending,
                         gattVars >>
    ELSE \E ret \in BOOLEAN :
         IF ~ret
         THEN /\ lastOp' = Op("connect", 0, Undefined, NoValue,
                              "Device refused to connect",
                              << "simpleble_peripheral_connect" >>, <<>>, <<>>)
              /\ UNCHANGED << noteVars, hubVars, table, nativeConnected, cbRegistered, pending,
                              gattVars >>
         ELSE /\ nativeConnected' = TRUE
              /\ services' = <<>>
              /\ connected' = TRUE
              /\ cbRegistered' = TRUE
              /\ lastOp' = Op("connect", 0, Undefined, NoValue, "ok",
                              << "simpleble_peripheral_connect",
                                 "simpleble_peripheral_set_callback_on_disconnected" >>,
                              << Ev("Device", "gattserverdisconnected"),
                                 Ev("Hub", "gattserverdisconnected") >>, <<>>)
              /\ svc' = [ i \in 1..Len(svc) |-> StaleService(svc[i]) ]
              /\ dsc' = [ i \in 1..Len(dsc) |-> StaleDescriptor(dsc[i]) ]
              /\ UNCHANGED << noteVars, hubVars, table, pending >>

\* disconnect() as it would be if it returned early on a disconnected server.
disconnect_onlyWhenConnected ==
    IF ~connected
    THEN /\ lastOp' = Op("disconnect", 0, Undefined, NoValue, "ok", <<>>, <<>>,
                         <<>>)
         /\ UNCHANGED << noteVars, hubVars, table, nativeConnected, cbRegistered, pending,
                         gattVars >>
    ELSE \E ret \in BOOLEAN :
        /\ nativeConnected' = (nativeConnected /\ ~ret)
        /\ connected' = FALSE
        /\ lastOp' = Op("disconnect", 0, Undefined, NoValue, "ok",
                        << "simpleble_peripheral_disconnect" >>, <<>>, <<>>)
        /\ subs' = IF nativeConnected /\ ~ret THEN subs ELSE NoSubs
        /\ UNCHANGED << notes, hubVars, table, cbRegistered, pending,
                        services, svc, dsc >>

(***************************************************************************)
(* BluetoothRemoteGATTServer.disconnect.  The native call's boolean result *)
(* is ignored; when it reports failure the link stays as it was.  The      *)
(* peripheral's subscriptions end with the link.                           *)
(***************************************************************************)
disconnect ==
    \E ret \in BOOLEAN :
        /\ nativeConnected' = (nativeConnected /\ ~ret)
        /\ connected' = FALSE
        /\ lastOp' = Op("disconnect", 0, Undefined, NoValue, "ok",
                        << "simpleble_peripheral_disconnect" >>, <<>>, <<>>)
        /\ subs' = IF nativeConnected /\ ~ret THEN subs ELSE NoSubs
        /\ UNCHANGED << notes, hubVars, table, cbRegistered, pending,
                        services, svc, dsc >>

(***************************************************************************)
(* The peripheral drops the link (reset, out of range).  The native layer  *)
(* calls PeripheralCallback, which queues the registered JavaScript        *)
(* callback with NonBlockingCall.                                          *)
(***************************************************************************)
PeripheralCallback ==
    /\ nativeConnected
    /\ cbRegistered
    /\ pending < MaxPending
    /\ nativeConnected' = FALSE
    /\ pending' = pending + 1
    /\ lastOp' = Op("PeripheralCallback", 0, Undefined, NoValue, "ok",
                    <<>>, <<>>, <<>>)
    /\ subs' = NoSubs
    /\ UNCHANGED << notes, hubVars, table, cbRegistered, gattVars >>

\* The disconnected-callback as it would be if it did not reach the server's
\* _connected field.
onDisconnected_noEffect ==
    /\ pending > 0
    /\ pending' = pending - 1
    /\ lastOp' = Op("onDisconnected", 0, Undefined, NoValue, "ok",
                    <<>>, <<>>, <<>>)
    /\ UNCHANGED << noteVars, hubVars, table, nativeConnected, cbRegistered, gattVars >>

(***************************************************************************)
(* The event loop runs a queued disconnected-callback: the arrow function  *)
(* connect() registered.                                                   *)
(***************************************************************************)
onDisconnected ==
    /\ pending > 0
    /\ pending' = pending - 1
    /\ connected' = FALSE
    /\ lastOp' = Op("onDisconnected", 0, Undefined, NoValue, "ok",
                    <<>>, <<>>, <<>>)
    /\ UNCHANGED << noteVars, hubVars, table, nativeConnected, cbRegistered, services, svc,
                    dsc >>

(***************************************************************************)
(* What a discovery or value call computes: its outcome, the value it      *)
(* resolves to, the binding calls and events, and the objects after it.    *)
(* A call that throws keeps the changes it made before throwing.           *)
(***************************************************************************)
Res(outcome, result, calls, events, sv, s, d) ==
    [ outcome |-> outcome, result |-> result, calls |-> calls,
      events |-> events, services |-> sv, svc |-> s, dsc |-> d ]

\* A call that throws (or returns) without touching any object.
Same(outcome, result, calls, events) ==
    Res(outcome, result, calls, events, services, svc, dsc)

\* The call's effect on the state, for a call that subscribes, unsubscribes
\* or lets go of objects: sb and nt are the notification state after it.
DoNote(name, obj, arg, val, r, sb, nt) ==
    /\ services' = r.services
    /\ svc' = r.svc
    /\ dsc' = r.dsc
    /\ subs' = sb
    /\ notes' = nt
    /\ lastOp' = Op(name, obj, arg, val, r.outcome, r.calls, r.events, r.result)
    /\ UNCHANGED << hubVars, table, nativeConnected, cbRegistered, pending, connected >>

\* The call's effect on the state.
Do(name, obj, arg, val, r) == DoNote(name, obj, arg, val, r, subs, notes)

\* n copies of the sequence s, concatenated.
RECURSIVE Repeat(_, _)
Repeat(s, n) == IF n = 0 THEN <<>> ELSE s \o Repeat(s, n - 1)

(***************************************************************************)
(* new BluetoothRemoteGATTService(bindings, peripheral, device, service)   *)
(* for the native service at index i: the fields the constructor sets and  *)
(* the three serviceadded events it dispatches.                            *)
(***************************************************************************)
ServiceObject(i) ==
    [ uuid |-> table[i].uuid, native |-> i, chars |-> <<>>, services |-> <<>>,
      stale |-> FALSE ]

\* The events of the constructor as they would be without the dispatch on
\* the Hub.
ServiceAdded_noHub ==
    << Ev("Service", "serviceadded"), Ev("Device", "serviceadded") >>

ServiceAdded ==
    << Ev("Service", "serviceadded"), Ev("Device", "serviceadded"),
       Ev("Hub", "serviceadded") >>

\* simpleble_peripheral_services_count: no services without a link.
ServicesCount == IF nativeConnected THEN Len(table) ELSE 0

\* The enumeration loop shared by getPrimaryServices and getIncludedServices.
EnumerateCalls ==
    << "simpleble_peripheral_services_count" >>
        \o Repeat(<< "simpleble_peripheral_services_get" >>, ServicesCount)

EnumerateObjects == [ i \in 1..ServicesCount |-> ServiceObject(i) ]

(***************************************************************************)
(* BluetoothRemoteGATTServer.getPrimaryServices                            *)
(***************************************************************************)
getPrimaryServicesRes(uuid) ==
    IF ~connected THEN Same("Device not connected", <<>>, <<>>, <<>>)
    ELSE
    LET populate == ArrayIsFalsy(services)
        cache    == IF populate THEN services \o EnumerateObjects ELSE services
        calls    == IF populate THEN EnumerateCalls ELSE <<>>
        events   == IF populate THEN Repeat(ServiceAdded, ServicesCount) ELSE <<>>
        filtered == SelectSeq(cache, LAMBDA o : o.uuid = getServiceUUID(uuid))
        R(outcome, result) == Res(outcome, result, calls, events, cache, svc, dsc)
    IN  IF IsFalsy(uuid) THEN R("ok", cache)
        ELSE IF cache # <<>> /\ getServiceUUID(uuid) = InvalidUUID
             THEN R(InvalidUUID, <<>>)
        ELSE IF Len(filtered) # 1 THEN R("Service not found", <<>>)
        ELSE R("ok", filtered)

getPrimaryServices(uuid) ==
    Do("getPrimaryServices", 0, uuid, NoValue, getPrimaryServicesRes(uuid))

(***************************************************************************)
(* BluetoothRemoteGATTServer.getPrimaryService                             *)
(***************************************************************************)
getPrimaryServiceRes(uuid) ==
    IF ~connected THEN Same("Device not connected", <<>>, <<>>, <<>>)
    ELSE IF IsFalsy(uuid) THEN Same("No service specified", <<>>, <<>>, <<>>)
    ELSE LET r == getPrimaryServicesRes(uuid)
         IN  IF r.outcome # "ok" THEN r
             ELSE IF Len(r.result) = 0
                  THEN [ r EXCEPT !.outcome = "Service not found" ]
             ELSE [ r EXCEPT !.result = << r.result[1] >> ]

getPrimaryService(uuid) ==
    Do("getPrimaryService", 0, uuid, NoValue, getPrimaryServiceRes(uuid))

(***************************************************************************)
(* The exported constructor of BluetoothRemoteGATTService, called with the *)
(* native service simpleble_peripheral_services_get returns for index i    *)
(* (the binding throws when the peripheral has no link).  The caller keeps *)
(* the new Service and lets go of the objects it held before; callbacks    *)
(* bound to those objects stay registered and queued.                      *)
(***************************************************************************)
LetGo(target) == IF target = <<>> THEN <<>> ELSE << 0 >>

newService(i) ==
    /\ nativeConnected
    /\ DoNote("new BluetoothRemoteGATTService", 0, Undefined, NoValue,
              Res("ok", << ServiceObject(i) >>,
                  << "simpleble_peripheral_services_get" >>, ServiceAdded,
                  services, << ServiceObject(i) >>, <<>>),
              [ n \in 1..Len(subs) |-> LetGo(subs[n]) ],
              [ n \in 1..Len(notes) |->
                    [ notes[n] EXCEPT !.target = LetGo(@) ] ])

(***************************************************************************)
(* new BluetoothRemoteGATTCharacteristic(bindings, peripheral, service,    *)
(* characteristic) for the k-th native characteristic of the Service.      *)
(* native is the native characteristic's descriptor list.                  *)
(***************************************************************************)
NativeChars == table[svc[1].native].characteristics

CharacteristicObject(k) ==
    [ uuid |-> NativeChars[k].uuid, native |-> NativeChars[k].descriptors,
      descriptors |-> <<>>, value |-> NoValue, stale |-> FALSE ]

\* getCharacteristics() as it would be without the connection check.
getCharacteristicsRes_unchecked(uuid) ==
    LET n        == Len(table[svc[1].native].characteristics)
        chars    == svc[1].chars \o
                    [ k \in 1..n |->
                        [ uuid |-> table[svc[1].native].characteristics[k].uuid,
                          native |-> table[svc[1].native].characteristics[k].descriptors,
                          descriptors |-> <<>>, value |-> NoValue,
                          stale |-> FALSE ] ]
        s        == << [ svc[1] EXCEPT !.chars = chars ] >>
        charUuid == getCharacteristicUUID(uuid)
        filtered == SelectSeq(chars, LAMBDA o : o.uuid = charUuid)
        R(outcome, result) == Res(outcome, result, <<>>, <<>>, services, s, dsc)
    IN  IF IsFalsy(uuid) THEN R("ok", chars)
        ELSE IF charUuid = InvalidUUID THEN R(InvalidUUID, <<>>)
        ELSE IF Len(filtered) # 1 THEN R("Characteristic not found", <<>>)
        ELSE R("ok", filtered)

(***************************************************************************)
(* BluetoothRemoteGATTService.getCharacteristics: every call constructs a  *)
(* Characteristic per native characteristic and pushes it onto _chars.     *)
(***************************************************************************)
getCharacteristicsRes(uuid) ==
    IF ~connected THEN Same("Device not connected", <<>>, <<>>, <<>>)
    ELSE
    LET n        == Len(NativeChars)
        chars    == svc[1].chars \o [ k \in 1..n |-> CharacteristicObject(k) ]
        s        == << [ svc[1] EXCEPT !.chars = chars ] >>
        charUuid == getCharacteristicUUID(uuid)
        filtered == SelectSeq(chars, LAMBDA o : o.uuid = charUuid)
        R(outcome, result) == Res(outcome, result, <<>>, <<>>, services, s, dsc)
    IN  IF IsFalsy(uuid) THEN R("ok", chars)
        ELSE IF charUuid = InvalidUUID THEN R(InvalidUUID, <<>>)
        ELSE IF Len(filtered) # 1 THEN R("Characteristic not found", <<>>)
        ELSE R("ok", filtered)

getCharacteristics(uuid) ==
    /\ svc # <<>>
    /\ LET r == getCharacteristicsRes(uuid)
       IN  /\ Len(r.svc[1].chars) <= MaxChars
           /\ Do("getCharacteristics", 0, uuid, NoValue, r)

(***************************************************************************)
(* BluetoothRemoteGATTService.getCharacteristic                            *)
(***************************************************************************)
getCharacteristicRes(uuid) ==
    IF ~connected THEN Same("Device not connected", <<>>, <<>>, <<>>)
    ELSE IF IsFalsy(uuid)
         THEN Same("No characteristic specified", <<>>, <<>>, <<>>)
    ELSE LET r == getCharacteristicsRes(uuid)
         IN  IF r.outcome # "ok" THEN r
             ELSE IF Len(r.result) = 0
                  THEN [ r EXCEPT !.outcome = "Characteristic not found" ]
             ELSE [ r EXCEPT !.result = << r.result[1] >> ]

getCharacteristic(uuid) ==
    /\ svc # <<>>
    /\ LET r == getCharacteristicRes(uuid)
       IN  /\ Len(r.svc[1].chars) <= MaxChars
           /\ Do("getCharacteristic", 0, uuid, NoValue, r)

(***************************************************************************)
(* BluetoothRemoteGATTService.getIncludedServices: enumerates the          *)
(* peripheral's services into the Service's own _services list.            *)
(***************************************************************************)
getIncludedServicesRes(uuid) ==
    IF ~connected THEN Same("Device not connected", <<>>, <<>>, <<>>)
    ELSE
    LET populate == ArrayIsFalsy(svc[1].services)
        cache    == IF populate THEN svc[1].services \o EnumerateObjects
                    ELSE svc[1].services
        s        == << [ svc[1] EXCEPT !.services = cache ] >>
        calls    == IF populate THEN EnumerateCalls ELSE <<>>
        events   == IF populate THEN Repeat(ServiceAdded, ServicesCount) ELSE <<>>
        filtered == SelectSeq(cache, LAMBDA o : o.uuid = getServiceUUID(uuid))
        R(outcome, result) == Res(outcome, result, calls, events, services, s, dsc)
    IN  IF IsFalsy(uuid) THEN R("ok", cache)
        ELSE IF cache # <<>> /\ getServiceUUID(uuid) = InvalidUUID
             THEN R(InvalidUUID, <<>>)
        ELSE IF Len(filtered) # 1
             THEN R("getIncludedServices error: service not found", <<>>)
        ELSE R("ok", filtered)

getIncludedServices(uuid) ==
    /\ svc # <<>>
    /\ Do("getIncludedServices", 0, uuid, NoValue, getIncludedServicesRes(uuid))

(***************************************************************************)
(* BluetoothRemoteGATTService.getIncludedService                           *)
(***************************************************************************)
getIncludedServiceRes(uuid) ==
    IF ~connected THEN Same("Device not connected", <<>>, <<>>, <<>>)
    ELSE IF IsFalsy(uuid) THEN Same("No service specified", <<>>, <<>>, <<>>)
    ELSE LET r == getIncludedServicesRes(uuid)
         IN  IF r.outcome # "ok" THEN r
             ELSE IF Len(r.result) # 1
                  THEN [ r EXCEPT !.outcome = "Service not found" ]
             ELSE [ r EXCEPT !.result = << r.result[1] >> ]

getIncludedService(uuid) ==
    /\ svc # <<>>
    /\ Do("getIncludedService", 0, uuid, NoValue, getIncludedServiceRes(uuid))

(***************************************************************************)
(* new BluetoothRemoteGATTDescriptor(bindings, peripheral, service, char,  *)
(* uuid) for the j-th descriptor UUID of the c-th Characteristic in _chars.*)
(***************************************************************************)
DescriptorObject(c, j) ==
    [ char |-> c, uuid |-> svc[1].chars[c].native[j], value |-> NoValue,
      stale |-> FALSE ]

(***************************************************************************)
(* BluetoothRemoteGATTCharacteristic.getDescriptors                        *)
(***************************************************************************)
getDescriptorsRes(c, uuid) ==
    IF ~connected THEN Same("Device not connected", <<>>, <<>>, <<>>)
    ELSE
    LET populate == ArrayIsFalsy(svc[1].chars[c].descriptors)
        n        == Len(svc[1].chars[c].native)
        cache    == IF populate THEN [ j \in 1..n |-> DescriptorObject(c, j) ]
                    ELSE svc[1].chars[c].descriptors
        s        == << [ svc[1] EXCEPT !.chars[c].descriptors = cache ] >>
        filtered == SelectSeq(cache, LAMBDA o : o.uuid = getDescriptorUUID(uuid))
        R(outcome, result) == Res(outcome, result, <<>>, <<>>, services, s, dsc)
    IN  IF IsFalsy(uuid) THEN R("ok", cache)
        ELSE IF cache # <<>> /\ getDescriptorUUID(uuid) = InvalidUUID
             THEN R(InvalidUUID, <<>>)
        ELSE IF Len(filtered) # 1
             THEN R("getDescriptors error: descriptor not found", <<>>)
        ELSE R("ok", filtered)

getDescriptors(c, uuid) ==
    Do("getDescriptors", c, uuid, NoValue, getDescriptorsRes(c, uuid))

(***************************************************************************)
(* BluetoothRemoteGATTCharacteristic.getDescriptor                         *)
(***************************************************************************)
getDescriptorRes(c, uuid) ==
    IF ~connected THEN Same("Device not connected", <<>>, <<>>, <<>>)
    ELSE IF IsFalsy(uuid) THEN Same("No descriptor specified", <<>>, <<>>, <<>>)
    ELSE LET r == getDescriptorsRes(c, uuid)
         IN  IF r.outcome # "ok" THEN r
             ELSE IF Len(r.result) = 0
                  THEN [ r EXCEPT !.outcome = "Descriptor not found" ]
             ELSE [ r EXCEPT !.result = << r.result[1] >> ]

getDescriptor(c, uuid) ==
    Do("getDescriptor", c, uuid, NoValue, getDescriptorRes(c, uuid))

(***************************************************************************)
(* The exported constructor of BluetoothRemoteGATTDescriptor, called for   *)
(* the j-th descriptor UUID the native characteristic of c lists.  The     *)
(* caller keeps the new Descriptor in place of the one it held.            *)
(***************************************************************************)
newDescriptor(c, j) ==
    Do("new BluetoothRemoteGATTDescriptor", c, Undefined, NoValue,
       Res("ok", << DescriptorObject(c, j) >>, <<>>, <<>>, services, svc,
           << DescriptorObject(c, j) >>))

(***************************************************************************)
(* BluetoothRemoteGATTCharacteristic._setValue: stores the value and, when *)
(* emit is set, dispatches characteristicvaluechanged on the               *)
(* Characteristic, its Service, the Device and the Bluetooth hub.          *)
(***************************************************************************)
ValueChanged ==
    << Ev("Characteristic", "characteristicvaluechanged"),
       Ev("Service", "characteristicvaluechanged"),
       Ev("Device", "characteristicvaluechanged"),
       Ev("Hub", "characteristicvaluechanged") >>

setValue(c, value, emit, calls) ==
    Res("ok", value, calls, IF emit THEN ValueChanged ELSE <<>>, services,
        << [ svc[1] EXCEPT !.chars[c].value = value ] >>, dsc)

\* What a native read can return: bytes, or undefined when the binding
\* rejects the call (always without a link).
ReadResults == IF nativeConnected THEN Payloads \cup { NoValue } ELSE { NoValue }

\* What a native call with a boolean result can return.
BoolResults == IF nativeConnected THEN BOOLEAN ELSE { FALSE }

(***************************************************************************)
(* BluetoothRemoteGATTCharacteristic.properties: the getter returns the    *)
(* same object literal for every characteristic.                           *)
(***************************************************************************)
Properties ==
    [ authenticatedSignedWrites |-> FALSE, broadcast |-> FALSE,
      indicate |-> TRUE, notify |-> TRUE, read |-> TRUE,
      reliableWrite |-> TRUE, write |-> TRUE, writeWithoutResponse |-> TRUE,
      writableAuxiliaries |-> FALSE ]

properties(c) ==
    Do("properties", c, Undefined, NoValue,
       Same("ok", << Properties >>, <<>>, <<>>))

(***************************************************************************)
(* BluetoothRemoteGATTCharacteristic.readValue                             *)
(***************************************************************************)
readValueRes(c, buffer) ==
    IF buffer = NoValue
    THEN Same("Characteristic is no longer valid", <<>>,
              << "simpleble_peripheral_read" >>, <<>>)
    ELSE setValue(c, buffer, TRUE, << "simpleble_peripheral_read" >>)

readValue(c) ==
    \E buffer \in ReadResults :
        Do("readValue", c, Undefined, buffer, readValueRes(c, buffer))

\* writeValueWithResponse() as it would be if it stored the value before
\* looking at the binding's answer.
writeValueWithResponseRes_storeFirst(c, value, ret) ==
    [ setValue(c, value, FALSE, << "simpleble_peripheral_write_command" >>)
        EXCEPT !.result = <<>>,
               !.outcome = IF ret THEN "ok"
                           ELSE "Error while writing a command to a characteristic" ]

(***************************************************************************)
(* BluetoothRemoteGATTCharacteristic.writeValueWithResponse, and           *)
(* writeValue, which calls it.                                             *)
(***************************************************************************)
writeValueWithResponseRes(c, value, ret) ==
    IF ~ret
    THEN Same("Error while writing a command to a characteristic", <<>>,
              << "simpleble_peripheral_write_command" >>, <<>>)
    ELSE [ setValue(c, value, FALSE, << "simpleble_peripheral_write_command" >>)
             EXCEPT !.result = <<>> ]

writeValueWithResponse(c, value) ==
    \E ret \in BoolResults :
        Do("writeValueWithResponse", c, Undefined, value,
           writeValueWithResponseRes(c, value, ret))

writeValue(c, value) ==
    \E ret \in BoolResults :
        Do("writeValue", c, Undefined, value,
           writeValueWithResponseRes(c, value, ret))

(***************************************************************************)
(* BluetoothRemoteGATTCharacteristic.writeValueWithoutResponse             *)
(***************************************************************************)
writeValueWithoutResponseRes(c, value, ret) ==
    IF ~ret
    THEN Same("Error while writing a request to a characteristic", <<>>,
              << "simpleble_peripheral_write_request" >>, <<>>)
    ELSE [ setValue(c, value, FALSE, << "simpleble_peripheral_write_request" >>)
             EXCEPT !.result = <<>> ]

writeValueWithoutResponse(c, value) ==
    \E ret \in BoolResults :
        Do("writeValueWithoutResponse", c, Undefined, value,
           writeValueWithoutResponseRes(c, value, ret))

(***************************************************************************)
(* BluetoothRemoteGATTCharacteristic.startNotifications and                *)
(* stopNotifications.  startNotifications resolves to the Characteristic.  *)
(***************************************************************************)
\* startNotifications() as it would be if it left a Characteristic alone
\* that has its subscription already.
startNotificationsRes_once(c) ==
    IF ~connected THEN Same("Device not connected", <<>>, <<>>, <<>>)
    ELSE IF subs[svc[1].native] = << c >>
         THEN Same("ok", << svc[1].chars[c] >>, <<>>, <<>>)
    ELSE Same("ok", << svc[1].chars[c] >>, << "simpleble_peripheral_notify" >>,
              <<>>)

startNotificationsRes(c) ==
    IF ~connected THEN Same("Device not connected", <<>>, <<>>, <<>>)
    ELSE Same("ok", << svc[1].chars[c] >>, << "simpleble_peripheral_notify" >>,
              <<>>)

\* The boolean result of simpleble_peripheral_notify is not looked at.  A
\* successful native call binds the subscription to this Characteristic.
NotifyResults ==
    IF \E k \in 1..Len(NativeChars) : NativeChars[k].canNotify
    THEN BoolResults ELSE { FALSE }

startNotifications(c) ==
    \E ret \in NotifyResults :
        DoNote("startNotifications", c, Undefined, NoValue,
               startNotificationsRes(c),
               IF connected /\ ret
               THEN [ subs EXCEPT ![svc[1].native] = << c >> ] ELSE subs,
               notes)

stopNotificationsRes(c) ==
    IF ~connected THEN Same("Device not connected", <<>>, <<>>, <<>>)
    ELSE Same("ok", <<>>, << "simpleble_peripheral_unsubscribe" >>, <<>>)

\* The boolean result of simpleble_peripheral_unsubscribe is not looked at.
stopNotifications(c) ==
    \E ret \in NotifyResults :
        DoNote("stopNotifications", c, Undefined, NoValue,
               stopNotificationsRes(c),
               IF connected /\ ret
               THEN [ subs EXCEPT ![svc[1].native] = <<>> ] ELSE subs,
               notes)

(***************************************************************************)
(* The peripheral notifies the subscribed characteristic of native service *)
(* i with the bytes data.  The native layer calls PeripheralNotifyCallback,*)
(* which queues the JavaScript callback with NonBlockingCall; the queued   *)
(* lambda keeps the pointer to the bytes, not the bytes.                   *)
(***************************************************************************)
PeripheralNotifyCallback(i, data) ==
    /\ nativeConnected
    /\ subs[i] # <<>>
    /\ Len(notes) < MaxNotes
    /\ notes' = Append(notes, [ native |-> i, target |-> subs[i], sent |-> data ])
    /\ lastOp' = Op("PeripheralNotifyCallback", 0, Undefined, data, "ok",
                    <<>>, <<>>, <<>>)
    /\ UNCHANGED << subs, hubVars, table, nativeConnected, cbRegistered, pending,
                    gattVars >>

\* The bytes the queued lambda can copy when it runs: the buffer it points to
\* belongs to the native layer and may have been released or reused.
CopiedBytes(sent) == Payloads

\* The events of one delivery: the callback's own "notify" event, then those
\* of _setValue(view, true).
NotifyEvents == << Ev("Characteristic", "notify") >> \o ValueChanged

\* The notification callback as it would be if it stored the value silently.
onNotify_silent ==
    /\ notes # <<>>
    /\ \E data \in CopiedBytes(notes[1].sent) :
          LET k == notes[1].target[1]
          IN  /\ svc' = IF k = 0 THEN svc
                        ELSE << [ svc[1] EXCEPT !.chars[k].value = data ] >>
              /\ lastOp' = Op("onNotify", k, Undefined, data, "ok", <<>>,
                              << Ev("Characteristic", "notify") >>, <<>>)
    /\ notes' = Tail(notes)
    /\ UNCHANGED << subs, hubVars, table, nativeConnected, cbRegistered, pending,
                    connected, services, dsc >>

\* The delivery as it would be if the event loop took the newest queued
\* callback first.
onNotify_newestFirst ==
    /\ notes # <<>>
    /\ \E data \in CopiedBytes(notes[Len(notes)].sent) :
          LET k == notes[Len(notes)].target[1]
          IN  /\ svc' = IF k = 0 THEN svc
                        ELSE << [ svc[1] EXCEPT !.chars[k].value = data ] >>
              /\ lastOp' = Op("onNotify", k, Undefined, data, "ok", <<>>,
                              NotifyEvents, <<>>)
    /\ notes' = SubSeq(notes, 1, Len(notes) - 1)
    /\ UNCHANGED << subs, hubVars, table, nativeConnected, cbRegistered, pending,
                    connected, services, dsc >>

(***************************************************************************)
(* The event loop runs a queued notification callback: the arrow function  *)
(* startNotifications() passed to simpleble_peripheral_notify.  It checks  *)
(* neither the connection nor whether the subscription still stands.       *)
(***************************************************************************)
onNotify ==
    /\ notes # <<>>
    /\ \E data \in CopiedBytes(notes[1].sent) :
          LET k == notes[1].target[1]
          IN  /\ svc' = IF k = 0 THEN svc
                        ELSE << [ svc[1] EXCEPT !.chars[k].value = data ] >>
              /\ lastOp' = Op("onNotify", k, Undefined, data, "ok", <<>>,
                              NotifyEvents, <<>>)
    /\ notes' = Tail(notes)
    /\ UNCHANGED << subs, hubVars, table, nativeConnected, cbRegistered, pending,
                    connected, services, dsc >>

(***************************************************************************)
(* BluetoothRemoteGATTDescriptor.readValue                                 *)
(***************************************************************************)
descriptorReadValueRes(data) ==
    IF ~connected THEN Same("Device not connected", <<>>, <<>>, <<>>)
    ELSE IF data = NoValue
         THEN Same("Descriptor is no longer valid", <<>>,
                   << "simpleble_peripheral_read_descriptor" >>, <<>>)
    ELSE Res("ok", data, << "simpleble_peripheral_read_descriptor" >>, <<>>,
             services, svc, << [ dsc[1] EXCEPT !.value = data ] >>)

descriptorReadValue ==
    /\ dsc # <<>>
    /\ \E data \in ReadResults :
          Do("Descriptor.readValue", 0, Undefined,
             IF connected THEN data ELSE NoValue, descriptorReadValueRes(data))

(***************************************************************************)
(* BluetoothRemoteGATTDescriptor.writeValue                                *)
(***************************************************************************)
descriptorWriteValueRes(value, ret) ==
    IF ~ret
    THEN Same("Descriptor is no longer valid", <<>>,
              << "simpleble_peripheral_write_descriptor" >>, <<>>)
    ELSE Res("ok", <<>>, << "simpleble_peripheral_write_descriptor" >>, <<>>,
             services, svc, << [ dsc[1] EXCEPT !.value = value ] >>)

descriptorWriteValue(value) ==
    /\ dsc # <<>>
    /\ \E ret \in BoolResults :
          Do("Descriptor.writeValue", 0, Undefined, value,
             descriptorWriteValueRes(value, ret))

(***************************************************************************)
(* The Bluetooth Hub (bluetooth.ts).  A name is a sequence of pieces, so   *)
(* that String.startsWith can be computed: "Widget-A" is "Widget" followed *)
(* by "-A".  The empty name stands for a name that is not given: the empty *)
(* string and undefined are both falsy where the code looks at them.       *)
(***************************************************************************)
WidgetA  == << "Widget", "-A" >>
Widget   == << "Widget" >>
WidgetAB == << "Widget", "-A", "B" >>
widget   == << "widget" >>
Gadget   == << "Gadget" >>
NoName   == <<>>

\* One entry of a peripheral's manufacturer data, and one entry of a
\* manufacturerData filter.  An empty dataPrefix stands for one that is not
\* given: checkManufacturerData returns true for both.
MData(id, data) == [ id |-> id, data |-> data ]
MFilter(companyIdentifier, dataPrefix) ==
    [ companyIdentifier |-> companyIdentifier, dataPrefix |-> dataPrefix ]

Apple  == 76
Nordic == 89

\* The peripherals a scan can report, with the bytes they advertise.
Found(identifier, address, manufacturerData) ==
    [ identifier |-> identifier, address |-> address,
      manufacturerData |-> manufacturerData ]

ScanPeripherals ==
    { Found(WidgetA, "AA", << MData(Apple, << 2, 21, 153 >>) >>),
      Found(Widget, "BB", << MData(Apple, << 2, 22 >>) >>),
      Found(NoName, "CC", << MData(Nordic, <<>>) >>) }

\* What simpleble_adapter_scan_get_results_* report after a scan cycle.
ScanResults ==
    UNION { [ 1..n -> ScanPeripherals ] : n \in 0..MaxResults }

\* filter.manufacturerData of a filter that has none.
NoData == << MFilter(-1, <<>>) >>

Filter(name, namePrefix, manufacturerData, hasServices) ==
    [ name |-> name, namePrefix |-> namePrefix,
      manufacturerData |-> manufacturerData, services |-> hasServices ]

\* The filters of the requests: services says that the field is given.
Filters ==
    { Filter(NoName, Widget, NoData, FALSE),
      Filter(NoName, Gadget, NoData, FALSE),
      Filter(NoName, widget, NoData, FALSE),
      Filter(NoName, WidgetAB, NoData, FALSE),
      Filter(WidgetA, NoName, NoData, FALSE),
      Filter(Widget, Widget, << MFilter(Apple, << 2, 21 >>) >>, FALSE),
      Filter(NoName, NoName, << MFilter(Apple, << 2, 21 >>) >>, FALSE),
      Filter(NoName, NoName, << MFilter(Apple, <<>>) >>, FALSE),
      Filter(NoName, NoName, << MFilter(Nordic, <<>>) >>, FALSE),
      Filter(NoName, NoName,
             << MFilter(Nordic, <<>>), MFilter(Apple, << 2 >>) >>, FALSE),
      Filter(NoName, NoName, << MFilter(Apple, << 2, 22, 1 >>) >>, FALSE),
      Filter(NoName, Widget, NoData, TRUE) }

\* options.filters of the requests: one filter, or one of a few pairs.
FilterLists ==
    { << f >> : f \in Filters }
    \cup { << Filter(NoName, Gadget, NoData, FALSE), f >> :
             f \in { Filter(WidgetA, NoName, NoData, FALSE),
                     Filter(NoName, widget, NoData, FALSE),
                     Filter(NoName, Widget, NoData, TRUE) } }
    \cup { << Filter(NoName, Widget, NoData, FALSE),
              Filter(NoName, Widget, NoData, TRUE) >> }

\* PeripheralWrapper::ManufacturerDataGet copies the advertised bytes into a
\* Uint32Array, one element per byte, and _request wraps the buffer of that
\* array in a DataView: the view has four bytes per advertised byte, the
\* byte itself and three zeros (the hosts are little-endian).
Uint32Buffer(data) ==
    [ i \in 1..(4 * Len(data)) |->
        IF (i - 1) % 4 = 0 THEN data[((i - 1) \div 4) + 1] ELSE 0 ]

\* The BluetoothManufacturerData map that _request builds for a scan result.
ManufacturerMap(d) ==
    [ j \in 1..Len(d.manufacturerData) |->
        MData(d.manufacturerData[j].id, Uint32Buffer(d.manufacturerData[j].data)) ]

\* Map.has and Map.get of a BluetoothManufacturerData.
MapHas(map, id) == \E j \in 1..Len(map) : map[j].id = id
MapGet(map, id) ==
    map[CHOOSE j \in 1..Len(map) :
            /\ map[j].id = id
            /\ \A k \in (j + 1)..Len(map) : map[k].id # id].data

\* String.startsWith.
startsWith(name, prefix) ==
    /\ Len(prefix) <= Len(name)
    /\ SubSeq(name, 1, Len(prefix)) = prefix

RangeError == "RangeError: Offset is outside the bounds of the DataView"
ServicesUnsupported == "Filtering by services is not supported yet"

\* checkManufacturerData: "true", "false", or the error that it throws.
\* view.getUint8(i) is called for every byte of dataPrefix and throws when
\* i is not an offset of the view.
RECURSIVE checkManufacturerData(_, _)
checkManufacturerData(map, filters) ==
    IF filters = <<>> THEN "false"
    ELSE LET companyIdentifier == Head(filters).companyIdentifier
             dataPrefix == Head(filters).dataPrefix
         IN  IF ~MapHas(map, companyIdentifier)
             THEN checkManufacturerData(map, Tail(filters))
             ELSE IF dataPrefix = <<>> THEN "true"
             ELSE LET view == MapGet(map, companyIdentifier)
                  IN  IF Len(dataPrefix) > Len(view) THEN RangeError
                      ELSE IF \A i \in 1..Len(dataPrefix) : view[i] = dataPrefix[i]
                           THEN "true"
                           ELSE checkManufacturerData(map, Tail(filters))

\* _filterDevice: "true", "false", or the error that it throws.
RECURSIVE filterDevice(_, _)
filterDevice(filters, info) ==
    IF filters = <<>> THEN "false"
    ELSE LET filter == Head(filters)
             md == IF filter.manufacturerData = NoData THEN "true"
                   ELSE checkManufacturerData(info.manufacturerData,
                                              filter.manufacturerData)
         IN  IF filter.name # NoName /\ filter.name # info.name
             THEN filterDevice(Tail(filters), info)
             ELSE IF /\ filter.namePrefix # NoName
                     /\ \/ info.name = NoName
                        \/ Len(filter.namePrefix) > Len(info.name)
                        \/ ~startsWith(info.name, filter.namePrefix)
             THEN filterDevice(Tail(filters), info)
             ELSE IF md = "false" THEN filterDevice(Tail(filters), info)
             ELSE IF md # "true" THEN md
             ELSE IF filter.services THEN ServicesUnsupported
             ELSE "true"

\* options.filters of a request that has none, and the options of a request
\* with structured filters or with a filter function of the caller.
NoFilters == << Filter(<< "undefined" >>, NoName, NoData, FALSE) >>

Options(filter, filters) == [ filter |-> filter, filters |-> filters ]

\* The filter functions callers pass as options.filter.
CustomFilters == { "anyDevice", "addressBB" }

CustomFilter(filter, info) ==
    CASE filter = "anyDevice" -> "true"
      [] filter = "addressBB" -> IF info.address = "BB" THEN "true" ELSE "false"

InvalidOptions == "filter or filters must be given"

\* A _createFilter that prefers options.filters to options.filter.
filterCb_filtersFirst(options, info) ==
    IF options.filters # NoFilters
    THEN filterDevice(options.filters, info)
    ELSE CustomFilter(options.filter, info)

\* The callback of _createFilter, applied: options.filter when it is given,
\* _filterDevice with options.filters otherwise.
filterCb(options, info) ==
    IF options.filter # Undefined
    THEN CustomFilter(options.filter, info)
    ELSE filterDevice(options.filters, info)

\* new BluetoothDevice(bindings, d, address, id, this, manufacturerData):
\* the id of the device is the address of the peripheral, its name is the
\* peripheral's identifier.
BluetoothDevice(d) ==
    [ id |-> d.address, name |-> d.identifier,
      manufacturerData |-> ManufacturerMap(d) ]

RequestDeviceInfo(d) ==
    [ name |-> d.identifier, address |-> d.address,
      manufacturerData |-> ManufacturerMap(d) ]

ScanCalls ==
    << "simpleble_adapter_scan_start", "simpleble_adapter_scan_stop",
       "simpleble_adapter_scan_get_results_count" >>

\* The loop of _request over the scan results that are left, with the
\* devices found so far.
RECURSIVE requestLoop(_, _, _, _)
requestLoop(options, results, singleDevice, found) ==
    IF results = <<>> THEN [ outcome |-> "ok", devices |-> found ]
    ELSE LET d == Head(results)
             match == filterCb(options, RequestDeviceInfo(d))
         IN  IF match = "false"
             THEN requestLoop(options, Tail(results), singleDevice, found)
             ELSE IF match # "true"
             THEN [ outcome |-> match, devices |-> <<>> ]
             ELSE IF singleDevice
             THEN [ outcome |-> "ok", devices |-> Append(found, BluetoothDevice(d)) ]
             ELSE requestLoop(options, Tail(results), singleDevice,
                              Append(found, BluetoothDevice(d)))

\* _request(options, singleDevice) with options.filters given and no
\* options.filter; results is what the adapter accumulated between scan
\* start and scan stop.
requestRes(filters, results, singleDevice) ==
    requestLoop(Options(Undefined, filters), results, singleDevice, <<>>)

NoDevicesFound(name) == name \o " error: no devices found"

\* The effect of requestDevice and requestDevices on the Hub.
DoRequest(name, filters, results, outcome, found, registry) ==
    /\ devices' = registry
    /\ request' = [ filter |-> Undefined, filters |-> filters,
                    results |-> results, adapter |-> hub.adapter,
                    signal |-> "none" ]
    /\ lastOp' = Op(name, 0, Undefined, NoValue, outcome, ScanCalls, <<>>, found)
    /\ UNCHANGED << noteVars, scanVars, table, nativeConnected, cbRegistered,
                    pending, gattVars >>

\* requestDevice() as it would be if it resolved to nothing, instead of
\* throwing, when no scan result matches.
requestDevice_noThrow(filters, results) ==
    LET r == requestRes(filters, results, TRUE)
    IN  /\ Len(devices) < MaxDevices
        /\ IF r.outcome # "ok"
           THEN DoRequest("requestDevice", filters, results, r.outcome, <<>>, devices)
           ELSE IF Len(r.devices) = 0
           THEN DoRequest("requestDevice", filters, results, "ok", <<>>, devices)
           ELSE DoRequest("requestDevice", filters, results, "ok",
                          << r.devices[1] >>, Append(devices, r.devices[1]))

requestDevice(filters, results) ==
    LET r == requestRes(filters, results, TRUE)
    IN  /\ Len(devices) < MaxDevices
        /\ IF r.outcome # "ok"
           THEN DoRequest("requestDevice", filters, results, r.outcome, <<>>, devices)
           ELSE IF Len(r.devices) = 0
           THEN DoRequest("requestDevice", filters, results,
                          NoDevicesFound("requestDevice"), <<>>, devices)
           ELSE DoRequest("requestDevice", filters, results, "ok",
                          << r.devices[1] >>, Append(devices, r.devices[1]))

\* requestDevices: it, too, calls _request(options, true).
requestDevices(filters, results) ==
    LET r == requestRes(filters, results, TRUE)
    IN  /\ Len(devices) < MaxDevices
        /\ IF r.outcome # "ok"
           THEN DoRequest("requestDevices", filters, results, r.outcome, <<>>, devices)
           ELSE IF Len(r.devices) = 0
           THEN DoRequest("requestDevices", filters, results,
                          NoDevicesFound("requestDevices"), <<>>, devices)
           ELSE DoRequest("requestDevices", filters, results, "ok",
                          r.devices, devices \o r.devices)

getDevices ==
    /\ lastOp' = Op("getDevices", 0, Undefined, NoValue, "ok", <<>>, <<>>, devices)
    /\ UNCHANGED << noteVars, hubVars, table, nativeConnected, cbRegistered,
                    pending, gattVars >>

\* BluetoothDevice.forget() on the i-th device of the registry: it throws.
forget(i) ==
    /\ lastOp' = Op("forget", 0, devices[i].id, NoValue,
                    "forget is not implemented yet", <<>>, <<>>, <<>>)
    /\ UNCHANGED << noteVars, hubVars, table, nativeConnected, cbRegistered,
                    pending, gattVars >>

(***************************************************************************)
(* Requests and scans step by step.  _request and scan() start the scan of *)
(* the selected adapter and then wait for a timer (await delay(timeout));  *)
(* until the timer fires, other calls and callbacks run.  A flight is an   *)
(* operation that waits: kind is the method, signal the state of           *)
(* options.signal ("none" when there is none), settled says that the       *)
(* caller's promise was rejected already, pc where the operation waits     *)
(* ("delay", or "yield" for a scan that handed a device to its consumer),  *)
(* ids the list of scan(), rest the scan results that its loop has still   *)
(* to look at.  Two fields are bookkeeping of the model: adapter is the    *)
(* handle on which the operation started its last scan cycle, yielded the  *)
(* ids of the devices that the scan has yielded.                           *)
(***************************************************************************)
Flight(kind, options, signal) ==
    [ kind |-> kind, options |-> options, signal |-> signal,
      settled |-> signal = "aborted", pc |-> "delay", adapter |-> hub.adapter,
      ids |-> <<>>, yielded |-> <<>>, rest |-> <<>> ]

RemoveAt(s, f) == SubSeq(s, 1, f - 1) \o SubSeq(s, f + 1, Len(s))

Requests == { "requestDevice", "requestDevices" }

\* The rejection of abortable(p, signal) and of scan() with an aborted signal.
Canceled == "Operation was canceled"

\* The peripherals the scan cycles of a flight report: the peripheral at
\* address AA is seen without its name and with it, and the peripheral at
\* address BB has the same name.
CyclePeripherals ==
    { Found(NoName, "AA", << MData(Apple, << 2, 21, 153 >>) >>),
      Found(WidgetA, "AA", << MData(Apple, << 2, 21, 153 >>) >>),
      Found(WidgetA, "BB", << MData(Apple, << 2, 22 >>) >>) }

\* The results of a scan cycle: a cycle reports an address once.
CycleResults ==
    { r \in UNION { [ 1..n -> CyclePeripherals ] : n \in 0..MaxResults } :
        \A i, j \in 1..Len(r) : i # j => r[i].address # r[j].address }

\* The options of the flights: none, structured filters without and with
\* services, a filter function, and a filter function together with
\* structured filters.
FlightOptions ==
    { Options(Undefined, NoFilters),
      Options(Undefined, << Filter(NoName, Widget, NoData, FALSE) >>),
      Options(Undefined, << Filter(WidgetA, NoName, NoData, TRUE) >>),
      Options("anyDevice", NoFilters),
      Options("addressBB", << Filter(NoName, Widget, NoData, TRUE) >>) }

Signals == { "none", "live", "aborted" }

\* The signals a request is started with: a request without filter and
\* filters is not started with an aborted signal, for which of the two
\* rejections the caller sees is abortable's choice.
RequestSignals(options) ==
    IF options.filters = NoFilters /\ options.filter = Undefined
    THEN Signals \ { "aborted" } ELSE Signals

\* What a step of a flight leaves in request.
RequestOf(options, results, adapter, signal) ==
    [ filter |-> options.filter, filters |-> options.filters,
      results |-> results, adapter |-> adapter, signal |-> signal ]

\* requestDevice(options) and requestDevices(options) up to the first await:
\* _request throws without filter and filters, else it starts the scan of
\* the selected adapter and waits; abortable rejects at once when the signal
\* is aborted already.
requestStart(name, options, signal) ==
    /\ hub.usable
    /\ Len(devices) < MaxDevices
    /\ IF options.filters = NoFilters /\ options.filter = Undefined
       THEN /\ lastOp' = Op(name, hub.adapter, Undefined, NoValue,
                            InvalidOptions, <<>>, <<>>, <<>>)
            /\ request' = RequestOf(options, <<>>, hub.adapter, signal)
            /\ UNCHANGED << scanning, flights >>
       ELSE /\ scanning' = [ scanning EXCEPT ![hub.adapter + 1] = TRUE ]
            /\ flights' = Append(flights, Flight(name, options, signal))
            /\ IF signal = "aborted"
               THEN /\ lastOp' = Op(name, hub.adapter, Undefined, NoValue, Canceled,
                                    << "simpleble_adapter_scan_start" >>, <<>>, <<>>)
                    /\ request' = RequestOf(options, <<>>, hub.adapter, signal)
               ELSE UNCHANGED << lastOp, request >>
    /\ UNCHANGED << noteVars, devices, hub, table, nativeConnected,
                    cbRegistered, pending, gattVars >>

\* The timer of a request fires: _request stops the scan of the adapter
\* that is selected now, takes its results and filters them.  The caller of
\* a request whose signal was aborted has its rejection already; the devices
\* of such a request are dropped (op "_request").
requestFinish(f, results) ==
    LET fl == flights[f]
        r == requestLoop(fl.options, results, TRUE, <<>>)
        name == IF fl.settled THEN "_request" ELSE fl.kind
        found == IF fl.kind = "requestDevice" /\ r.devices # <<>>
                 THEN << r.devices[1] >> ELSE r.devices
        outcome == IF r.outcome = "ok" /\ r.devices = <<>> /\ ~fl.settled
                   THEN NoDevicesFound(fl.kind) ELSE r.outcome
    IN  /\ fl.kind \in Requests
        /\ fl.pc = "delay"
        /\ scanning' = [ scanning EXCEPT ![hub.adapter + 1] = FALSE ]
        /\ flights' = RemoveAt(flights, f)
        /\ devices' = IF fl.settled THEN devices ELSE devices \o found
        /\ request' = RequestOf(fl.options, results, fl.adapter, fl.signal)
        /\ lastOp' = Op(name, hub.adapter, Undefined, NoValue, outcome,
                        ScanCalls, <<>>, found)
        /\ UNCHANGED << noteVars, hub, table, nativeConnected, cbRegistered,
                        pending, gattVars >>

\* The loop of scan() over the scan results that are left: it ends with a
\* device to yield, at the end of the results, or with an error of the
\* filter.
RECURSIVE scanLoop(_, _, _)
scanLoop(options, ids, results) ==
    IF results = <<>>
    THEN [ kind |-> "end", outcome |-> "ok", device |-> <<>>, ids |-> ids,
           rest |-> <<>> ]
    ELSE LET d == Head(results)
             match == filterCb(options, RequestDeviceInfo(d))
         IN  IF \E k \in 1..Len(ids) : ids[k] = d.identifier
             THEN scanLoop(options, ids, Tail(results))
             ELSE IF match = "false"
             THEN scanLoop(options, ids, Tail(results))
             ELSE IF match # "true"
             THEN [ kind |-> "throw", outcome |-> match, device |-> <<>>,
                    ids |-> ids, rest |-> <<>> ]
             ELSE [ kind |-> "yield", outcome |-> "ok",
                    device |-> << BluetoothDevice(d) >>,
                    ids |-> Append(ids, d.identifier), rest |-> Tail(results) ]

\* scan(options) up to the first await, at the consumer's first next().
scanStart(options, signal) ==
    /\ hub.usable
    /\ IF options.filters = NoFilters /\ options.filter = Undefined
       THEN /\ lastOp' = Op("scan", hub.adapter, Undefined, NoValue,
                            InvalidOptions, <<>>, <<>>, <<>>)
            /\ request' = RequestOf(options, <<>>, hub.adapter, signal)
            /\ UNCHANGED << scanning, flights >>
       ELSE IF signal = "aborted"
       THEN /\ lastOp' = Op("scan", hub.adapter, Undefined, NoValue,
                            Canceled, <<>>, <<>>, <<>>)
            /\ request' = RequestOf(options, <<>>, hub.adapter, signal)
            /\ UNCHANGED << scanning, flights >>
       ELSE /\ scanning' = [ scanning EXCEPT ![hub.adapter + 1] = TRUE ]
            /\ flights' = Append(flights, Flight("scan", options, signal))
            /\ UNCHANGED << lastOp, request >>
    /\ UNCHANGED << noteVars, devices, hub, table, nativeConnected,
                    cbRegistered, pending, gattVars >>

\* The loop of scan() runs over results, after the calls before: it yields
\* a device and waits for the consumer, or throws, or comes to the end of
\* the results and, done being false, starts the next cycle.
scanRun(f, results, before, stopped) ==
    LET fl == flights[f]
        r == scanLoop(fl.options, fl.ids, results)
        cycle == IF stopped = {} THEN fl.rest ELSE results
    IN  /\ request' = RequestOf(fl.options, cycle, fl.adapter, fl.signal)
        /\ CASE r.kind = "yield" ->
                  /\ flights' = [ flights EXCEPT
                                    ![f].pc = "yield", ![f].ids = r.ids,
                                    ![f].rest = r.rest,
                                    ![f].yielded = Append(@, r.device[1].id) ]
                  /\ scanning' = [ i \in 1..Len(scanning) |->
                                     scanning[i] /\ i \notin stopped ]
                  /\ lastOp' = Op("scan", hub.adapter, Undefined, NoValue, "ok",
                                  before, <<>>, r.device)
             [] r.kind = "throw" ->
                  /\ flights' = RemoveAt(flights, f)
                  /\ scanning' = [ i \in 1..Len(scanning) |->
                                     scanning[i] /\ i \notin stopped ]
                  /\ lastOp' = Op("scan", hub.adapter, Undefined, NoValue,
                                  r.outcome, before, <<>>, <<>>)
             [] r.kind = "end" ->
                  /\ flights' = [ flights EXCEPT
                                    ![f].pc = "delay", ![f].rest = <<>>,
                                    ![f].adapter = hub.adapter ]
                  /\ scanning' = [ scanning EXCEPT ![hub.adapter + 1] = TRUE ]
                  /\ lastOp' = Op("scan", hub.adapter, Undefined, NoValue, "ok",
                                  before \o << "simpleble_adapter_scan_start" >>,
                                  <<>>, <<>>)
        /\ UNCHANGED << noteVars, devices, hub, table, nativeConnected,
                        cbRegistered, pending, gattVars >>

\* The timer of a scan fires: the cycle ends with scan stop on the adapter
\* that is selected now, and the loop runs over the results of the cycle.
scanCycle(f, results) ==
    /\ flights[f].kind = "scan"
    /\ flights[f].pc = "delay"
    /\ scanRun(f, results,
               << "simpleble_adapter_scan_stop",
                  "simpleble_adapter_scan_get_results_count" >>,
               { hub.adapter + 1 })

\* The consumer of a scan asks for the next device: the loop goes on after
\* its yield.
scanNext(f) ==
    /\ flights[f].kind = "scan"
    /\ flights[f].pc = "yield"
    /\ scanRun(f, flights[f].rest, <<>>, {})

\* The AbortSignal of a flight fires.  abortable rejects the promise of a
\* request; the listener of scan() assigns false to done, which is false.
abort(f) ==
    LET fl == flights[f]
    IN  /\ fl.signal = "live"
        /\ flights' = [ flights EXCEPT ![f].signal = "aborted",
                                       ![f].settled = fl.kind \in Requests ]
        /\ request' = RequestOf(fl.options, <<>>, fl.adapter, "aborted")
        /\ lastOp' = IF fl.kind \in Requests
                     THEN Op(fl.kind, hub.adapter, Undefined, NoValue, Canceled,
                             <<>>, <<>>, <<>>)
                     ELSE Op("abort", hub.adapter, Undefined, NoValue, "ok",
                             <<>>, <<>>, <<>>)
        /\ UNCHANGED << noteVars, devices, hub, scanning, table,
                        nativeConnected, cbRegistered, pending, gattVars >>

setAdapter(index) ==
    /\ hub.usable
    /\ hub' = [ hub EXCEPT !.adapter = index ]
    /\ lastOp' = Op("setAdapter", index, Undefined, NoValue, "ok",
                    << "simpleble_adapter_get_handle" >>, <<>>, <<>>)
    /\ UNCHANGED << noteVars, devices, request, scanning, flights, table,
                    nativeConnected, cbRegistered, pending, gattVars >>

getAdapters ==
    /\ hub.usable
    /\ lastOp' = Op("getAdapters", hub.adapter, Undefined, NoValue, "ok", <<>>,
                    <<>>, hub.adapters)
    /\ UNCHANGED << noteVars, hubVars, table, nativeConnected, cbRegistered,
                    pending, gattVars >>

(***************************************************************************)
(* The caller takes the settled result of its call (the await in           *)
(* examples/heartrate.ts) and is ready for the next one.                   *)
(***************************************************************************)
Return ==
    /\ lastOp # Idle
    /\ lastOp' = Idle
    /\ request' = NoRequest
    /\ UNCHANGED << noteVars, devices, scanVars, table, nativeConnected,
                    cbRegistered, pending, gattVars >>

\* The Characteristics the caller can reach: the indexes of _chars.
Chars == IF svc = <<>> THEN {} ELSE 1..Len(svc[1].chars)

\* No call is running: the caller or the event loop may start one.
Ready == lastOp = Idle

Next ==
    \/ Return
    \/ Ready /\ connect
    \/ Ready /\ disconnect
    \/ Ready /\ PeripheralCallback
    \/ Ready /\ onDisconnected
    \/ \E uuid \in ServiceArgs : Ready /\ getPrimaryServices(uuid)
    \/ \E uuid \in ServiceArgs : Ready /\ getPrimaryService(uuid)
    \/ \E i \in 1..Len(table) : Ready /\ newService(i)
    \/ \E uuid \in CharArgs : Ready /\ getCharacteristics(uuid)
    \/ \E uuid \in CharArgs : Ready /\ getCharacteristic(uuid)
    \/ \E uuid \in ServiceArgs : Ready /\ getIncludedServices(uuid)
    \/ \E uuid \in ServiceArgs : Ready /\ getIncludedService(uuid)
    \/ \E c \in Chars, uuid \in DescArgs : Ready /\ getDescriptors(c, uuid)
    \/ \E c \in Chars, uuid \in DescArgs : Ready /\ getDescriptor(c, uuid)
    \/ \E c \in Chars : \E j \in 1..Len(svc[1].chars[c].native) :
            Ready /\ newDescriptor(c, j)
    \/ \E c \in Chars : Ready /\ properties(c)
    \/ \E c \in Chars : Ready /\ readValue(c)
    \/ \E c \in Chars, value \in Payloads : Ready /\ writeValue(c, value)
    \/ \E c \in Chars, value \in Payloads : Ready /\ writeValueWithResponse(c, value)
    \/ \E c \in Chars, value \in Payloads : Ready /\ writeValueWithoutResponse(c, value)
    \/ \E c \in Chars : Ready /\ startNotifications(c)
    \/ \E c \in Chars : Ready /\ stopNotifications(c)
    \/ Ready /\ descriptorReadValue
    \/ \E value \in Payloads : Ready /\ descriptorWriteValue(value)

Spec == Init /\ [][Next]_vars

(***************************************************************************)
(* The life cycle of the server alone, under fairness: the caller always   *)
(* takes the result of its call, and the event loop runs a queued callback *)
(* whenever no call is running.  The operations of Service, Characteristic *)
(* and Descriptor objects never assign _connected and are left out.        *)
(***************************************************************************)
ServerNext ==
    \/ Return
    \/ Ready /\ connect
    \/ Ready /\ disconnect
    \/ Ready /\ PeripheralCallback
    \/ Ready /\ onDisconnected
    \/ \E uuid \in ServiceArgs : Ready /\ getPrimaryServices(uuid)
    \/ \E uuid \in ServiceArgs : Ready /\ getPrimaryService(uuid)

FairSpec ==
    /\ Init
    /\ [][ServerNext]_vars
    /\ WF_vars(Return)
    /\ SF_vars(Ready /\ onDisconnected)

(***************************************************************************)
(* The values of Characteristics and Descriptors, with a peripheral that   *)
(* notifies: connection, one Service and its Characteristics, every read,  *)
(* write and subscription on them, and the notifications.                  *)
(***************************************************************************)
ValueInit == InitWith(NotifyPeripherals)

ValueNext ==
    \/ Return
    \/ Ready /\ connect
    \/ Ready /\ disconnect
    \/ \E i \in 1..Len(table) : Ready /\ newService(i)
    \/ \E uuid \in { Undefined, TEXT } : Ready /\ getCharacteristics(uuid)
    \/ \E c \in Chars : Ready /\ readValue(c)
    \/ \E c \in Chars, value \in Payloads : Ready /\ writeValue(c, value)
    \/ \E c \in Chars, value \in Payloads : Ready /\ writeValueWithResponse(c, value)
    \/ \E c \in Chars, value \in Payloads : Ready /\ writeValueWithoutResponse(c, value)
    \/ \E c \in Chars : Ready /\ startNotifications(c)
    \/ \E c \in Chars : Ready /\ stopNotifications(c)
    \/ \E i \in 1..Len(table), data \in Payloads :
            Ready /\ PeripheralNotifyCallback(i, data)
    \/ Ready /\ onNotify

ValueSpec == ValueInit /\ [][ValueNext]_vars

(***************************************************************************)
(* The Hub alone: requests for devices with structured filters, each with  *)
(* the scan results that its scan cycle accumulated, and the registry.     *)
(***************************************************************************)
HubNext ==
    \/ Return
    \/ \E filters \in FilterLists, results \in ScanResults :
            Ready /\ requestDevice(filters, results)
    \/ \E filters \in FilterLists, results \in ScanResults :
            Ready /\ requestDevices(filters, results)
    \/ Ready /\ getDevices
    \/ \E i \in 1..Len(devices) : Ready /\ forget(i)

HubSpec == Init /\ [][HubNext]_vars

(***************************************************************************)
(* The Hub with its adapters, its requests and its scans step by step:     *)
(* construction with any number of adapters, the selection of an adapter,  *)
(* requests and scans with and without filters and signals, their timers   *)
(* and the abort of their signals.                                         *)
(***************************************************************************)
ScanInit ==
    /\ table \in NotifyPeripherals
    /\ nativeConnected = FALSE
    /\ cbRegistered = FALSE
    /\ pending = 0
    /\ connected = FALSE
    /\ services = <<>>
    /\ svc = <<>>
    /\ dsc = <<>>
    /\ subs = NoSubs
    /\ notes = <<>>
    /\ devices = <<>>
    /\ request = NoRequest
    /\ flights = <<>>
    /\ \E count \in 0..MaxAdapters :
          /\ hub = Bluetooth(count)
          /\ scanning = [ i \in 1..count |-> FALSE ]
          /\ lastOp = [ op |-> "new Bluetooth", obj |-> count, arg |-> Undefined,
                        val |-> NoValue, pre |-> FALSE,
                        outcome |-> IF count = 0 THEN NoAdapters ELSE "ok",
                        calls |-> << "simpleble_adapter_get_count" >>,
                        events |-> IF count = 0 THEN <<>>
                                   ELSE << Ev("Hub", "availabilitychanged") >>,
                        result |-> <<>> ]

ScanNext ==
    \/ Return
    \/ \E name \in Requests, options \in FlightOptions :
         \E signal \in RequestSignals(options) :
            Ready /\ Len(flights) < MaxFlights
                  /\ requestStart(name, options, signal)
    \/ \E f \in 1..Len(flights), results \in CycleResults :
            Ready /\ requestFinish(f, results)
    \/ \E options \in FlightOptions, signal \in Signals :
            Ready /\ Len(flights) < MaxFlights /\ scanStart(options, signal)
    \/ \E f \in 1..Len(flights), results \in CycleResults :
            Ready /\ scanCycle(f, results)
    \/ \E f \in 1..Len(flights) : Ready /\ scanNext(f)
    \/ \E f \in 1..Len(flights) : Ready /\ abort(f)
    \/ \E index \in 0..(Len(hub.adapters) - 1) : Ready /\ setAdapter(index)
    \/ Ready /\ getAdapters
    \/ Ready /\ hub.usable /\ getDevices

ScanSpec == ScanInit /\ [][ScanNext]_vars

(***************************************************************************)
(* Requests and scans that overlap, on a Hub with one adapter: every       *)
(* operation has filters that let every named peripheral pass, and no      *)
(* signal.                                                                 *)
(***************************************************************************)
OverlapOptions ==
    { Options(Undefined, << Filter(NoName, Widget, NoData, FALSE) >>) }

OverlapNext ==
    \/ Return
    \/ \E name \in Requests, options \in OverlapOptions :
            Ready /\ Len(flights) < MaxOverlap
                  /\ requestStart(name, options, "none")
    \/ \E f \in 1..Len(flights), results \in CycleResults :
            Ready /\ requestFinish(f, results)
    \/ \E options \in OverlapOptions :
            Ready /\ Len(flights) < MaxOverlap /\ scanStart(options, "none")
    \/ \E f \in 1..Len(flights), results \in CycleResults :
            Ready /\ scanCycle(f, results)
    \/ \E f \in 1..Len(flights) : Ready /\ scanNext(f)

OverlapSpec == Init /\ [][OverlapNext]_vars

(***************************************************************************)
(* The claims.                                                             *)
(***************************************************************************)
ValueOps ==
    { "readValue", "writeValue", "writeValueWithResponse",
      "writeValueWithoutResponse", "startNotifications", "stopNotifications",
      "Descriptor.readValue", "Descriptor.writeValue" }

DiscoveryOps ==
    { "getPrimaryService", "getPrimaryServices", "getCharacteristic",
      "getCharacteristics", "getIncludedService", "getIncludedServices",
      "getDescriptor", "getDescriptors" }

NotConnected == "Device not connected"

\* C1: every read, write or subscribe operation on a Characteristic or
\* Descriptor invoked while gatt.connected is false fails with the
\* not-connected error and makes no call into the binding.
C1_ValueOpsRequireConnection ==
    (lastOp.op \in ValueOps /\ ~lastOp.pre)
        => (lastOp.outcome = NotConnected /\ lastOp.calls = <<>>)

\* C2: gatt.connected is false at construction and changes only by a
\* successful connect() (to true), by disconnect() (to false) or by the
\* native disconnection callback (to false); a successful connect() leaves it
\* true and a disconnect() leaves it false.
C2_ConnectedTransitions ==
    /\ ~connected
    /\ [][ /\ (connected' # connected) =>
                \/ lastOp'.op = "connect" /\ lastOp'.outcome = "ok" /\ connected'
                \/ lastOp'.op = "disconnect" /\ ~connected'
                \/ lastOp'.op = "onDisconnected" /\ ~connected'
           /\ (lastOp'.op = "connect" /\ lastOp'.outcome = "ok") => connected'
           /\ (lastOp'.op = "disconnect") => ~connected' ]_vars

\* C2 witness: a disconnect() has just ended a connected epoch.
C2_Witness ==
    lastOp.op = "disconnect" /\ lastOp.pre /\ ~connected

\* C3: a connect() that fails changes nothing.  Called while connected it
\* fails without calling the binding; when the native connect reports failure
\* it fails with "Device refused to connect"; in both cases connected and the
\* service cache keep their values and no event is dispatched.
C3_FailedConnectChangesNothing ==
    [][ (lastOp'.op = "connect") =>
          /\ connected =>
                (lastOp'.outcome = "Device already connected"
                    /\ lastOp'.calls = <<>>)
          /\ (~connected /\ lastOp'.outcome # "ok") =>
                (lastOp'.outcome = "Device refused to connect"
                    /\ lastOp'.calls = << "simpleble_peripheral_connect" >>)
          /\ (lastOp'.outcome # "ok") =>
                (connected' = connected /\ services' = services
                    /\ svc' = svc /\ dsc' = dsc /\ lastOp'.events = <<>>) ]_vars

\* C3 witness: the binding refused a connect() after an earlier epoch in which
\* the caller had discovered characteristics.
C3_Witness ==
    /\ lastOp.op = "connect"
    /\ lastOp.outcome = "Device refused to connect"
    /\ svc # <<>>

\* C4: disconnect() from either state calls the native disconnect, raises no
\* error and leaves connected false; on a server that is not connected it
\* changes nothing, so calling it twice leaves the state of calling it once.
C4_DisconnectIdempotent ==
    [][ (lastOp'.op = "disconnect") =>
          /\ lastOp'.outcome = "ok"
          /\ lastOp'.calls = << "simpleble_peripheral_disconnect" >>
          /\ ~connected'
          /\ << services, svc, dsc >>' = << services, svc, dsc >>
          /\ ~connected => (gattVars' = gattVars) ]_vars

\* C4 witness: disconnect() was called on a server that was not connected.
C4_Witness ==
    lastOp.op = "disconnect" /\ ~lastOp.pre /\ ~connected

\* C5: once the native layer has reported a disconnection during a connected
\* epoch (its callback is queued), connected becomes false, whatever the
\* caller does; and connected turns from false to true only by a successful
\* connect().
C5_NativeDisconnection ==
    /\ (pending > 0 /\ connected) ~> ~connected
    /\ [][ (~connected /\ connected') =>
              (lastOp'.op = "connect" /\ lastOp'.outcome = "ok") ]_vars

\* C5 witness: the callback has just run in a connected epoch.
C5_Witness ==
    lastOp.op = "onDisconnected" /\ lastOp.pre /\ ~connected

\* C6: every discovery operation called while gatt.connected is false fails
\* with the not-connected error, makes no binding call and changes no cache.
C6_DiscoveryRequiresConnection ==
    [][ (lastOp'.op \in DiscoveryOps /\ ~connected) =>
          /\ lastOp'.outcome = NotConnected
          /\ lastOp'.calls = <<>>
          /\ lastOp'.events = <<>>
          /\ << services, svc, dsc >>' = << services, svc, dsc >> ]_vars

\* C6 witness: a discovery call was rejected while the caller holds a Service
\* with built characteristics, the link is down and no callback is queued.
C6_Witness ==
    /\ lastOp.op \in DiscoveryOps
    /\ lastOp.outcome = NotConnected
    /\ svc # <<>> /\ svc[1].chars # <<>>
    /\ ~nativeConnected /\ pending = 0

\* C7: getPrimaryServices() without argument on a connected peripheral
\* resolves to the cache, which holds one Service per enumerated service.
C7_CacheFilledFromBinding ==
    ( /\ lastOp.op = "getPrimaryServices"
      /\ lastOp.arg = Undefined
      /\ lastOp.pre /\ nativeConnected )
        => /\ lastOp.outcome = "ok"
           /\ lastOp.result = services
           /\ Len(services) = Len(table)
           /\ \A i \in 1..Len(table) : services[i].uuid = table[i].uuid

\* C8: after a successful connect() the service cache is empty; a discovery
\* call serves no object built in an earlier epoch; and a queried cache holds
\* the services the binding enumerates.
C8_CachePerEpoch ==
    /\ (lastOp.op = "connect" /\ lastOp.outcome = "ok") => services = <<>>
    /\ (lastOp.op \in DiscoveryOps /\ lastOp.outcome = "ok") =>
           \A i \in 1..Len(lastOp.result) : ~lastOp.result[i].stale
    /\ ( /\ lastOp.op \in { "getPrimaryService", "getPrimaryServices" }
         /\ lastOp.pre /\ nativeConnected )
           => Len(services) = Len(table)

\* The number of services of the peripheral whose UUID is u.
Matching(u) == Cardinality({ i \in 1..Len(table) : table[i].uuid = u })

\* C9: on a connected server getPrimaryService(uuid) fails with "Service not
\* found" when no service has the UUID, resolves to the Service with that
\* UUID when exactly one has it, and fails when two share it.
C9_GetPrimaryService ==
    ( /\ lastOp.op = "getPrimaryService"
      /\ lastOp.pre /\ nativeConnected
      /\ lastOp.arg # Undefined
      /\ getServiceUUID(lastOp.arg) # InvalidUUID )
        => LET n == Matching(getServiceUUID(lastOp.arg))
           IN  /\ n = 0 => lastOp.outcome = "Service not found"
               /\ n = 1 => /\ lastOp.outcome = "ok"
                           /\ Len(lastOp.result) = 1
                           /\ lastOp.result[1].uuid = getServiceUUID(lastOp.arg)
               /\ n > 1 => lastOp.outcome # "ok"

\* C10: getPrimaryServices(uuid) on a connected server resolves, without
\* error, to the cached services whose UUID is the normalized argument, be
\* they none, one or several.
C10_GetPrimaryServicesSubset ==
    ( /\ lastOp.op = "getPrimaryServices"
      /\ lastOp.pre
      /\ lastOp.arg # Undefined
      /\ getServiceUUID(lastOp.arg) # InvalidUUID )
        => /\ lastOp.outcome = "ok"
           /\ lastOp.result =
                SelectSeq(services,
                          LAMBDA o : o.uuid = getServiceUUID(lastOp.arg))

\* The native characteristics of the held Service that carry the UUID u.
MatchingChars(u) ==
    Cardinality({ k \in 1..Len(NativeChars) : NativeChars[k].uuid = u })

\* C11: within a connection epoch the characteristic list of a Service is
\* built once: after any getCharacteristics() or getCharacteristic() call on a
\* connected device the list holds one Characteristic per native
\* characteristic, getCharacteristics() resolves to that list, and
\* getCharacteristic(uuid) for a UUID that exactly one native characteristic
\* carries resolves to it, its value undefined if it was never read.
C11_CharacteristicsBuiltOnce ==
    (lastOp.op \in { "getCharacteristics", "getCharacteristic" } /\ lastOp.pre)
        => /\ (lastOp.op = "getCharacteristics" \/ lastOp.arg # Undefined)
                 => Len(svc[1].chars) = Len(NativeChars)
           /\ (lastOp.op = "getCharacteristics" /\ lastOp.arg = Undefined)
                 => (lastOp.outcome = "ok"
                        /\ Len(lastOp.result) = Len(NativeChars))
           /\ ( /\ lastOp.arg # Undefined
                /\ MatchingChars(getCharacteristicUUID(lastOp.arg)) = 1 )
                 => /\ lastOp.outcome = "ok"
                    /\ Len(lastOp.result) = 1
                    /\ lastOp.result[1].uuid = getCharacteristicUUID(lastOp.arg)

\* The descriptor UUIDs of the native characteristic behind the c-th
\* Characteristic of the held Service that equal u.
MatchingDescriptors(c, u) ==
    Cardinality({ j \in 1..Len(svc[1].chars[c].native) :
                    svc[1].chars[c].native[j] = u })

\* C12: on a connected device getDescriptors() resolves to one Descriptor per
\* descriptor UUID of the native characteristic, kept as the
\* Characteristic's list; getDescriptor(uuid) resolves to the Descriptor with
\* that UUID, of the queried characteristic and with value undefined, and
\* fails when no descriptor has the UUID.
C12_DescriptorsFromNative ==
    (lastOp.op \in { "getDescriptors", "getDescriptor" } /\ lastOp.pre)
        => LET c == lastOp.obj
               n == Len(svc[1].chars[c].native)
           IN  /\ (lastOp.op = "getDescriptors" /\ lastOp.arg = Undefined)
                     => /\ lastOp.outcome = "ok"
                        /\ Len(lastOp.result) = n
                        /\ \A j \in 1..n :
                              lastOp.result[j].uuid = svc[1].chars[c].native[j]
                        /\ svc[1].chars[c].descriptors = lastOp.result
               /\ ( /\ lastOp.op = "getDescriptor"
                    /\ lastOp.arg # Undefined
                    /\ MatchingDescriptors(c, getDescriptorUUID(lastOp.arg)) = 1 )
                     => /\ lastOp.outcome = "ok"
                        /\ Len(lastOp.result) = 1
                        /\ lastOp.result[1].uuid = getDescriptorUUID(lastOp.arg)
                        /\ lastOp.result[1].char = c
                        /\ lastOp.result[1].value = NoValue
               /\ ( /\ lastOp.op = "getDescriptor"
                    /\ lastOp.arg # Undefined
                    /\ MatchingDescriptors(c, getDescriptorUUID(lastOp.arg)) = 0 )
                     => lastOp.outcome # "ok"

WriteOps == { "writeValue", "writeValueWithResponse", "writeValueWithoutResponse" }

\* The characteristicvaluechanged events among those a call dispatched.
ValueChangedOf(events) ==
    SelectSeq(events, LAMBDA e : e[2] = "characteristicvaluechanged")

\* C13: a successful readValue() and a delivered notification each dispatch
\* characteristicvaluechanged exactly once on the Characteristic, the
\* Service, the Device and the Hub, in that order; the three write
\* operations dispatch no event.
C13_ValueChangedEvents ==
    /\ (lastOp.op = "readValue" /\ lastOp.outcome = "ok")
          => ValueChangedOf(lastOp.events) = ValueChanged
    /\ (lastOp.op = "onNotify")
          => ValueChangedOf(lastOp.events) = ValueChanged
    /\ (lastOp.op \in WriteOps) => lastOp.events = <<>>

\* C13 witness: a notification was delivered to a Characteristic of the held
\* Service that had been read or written before.
C13_Witness ==
    /\ lastOp.op = "onNotify"
    /\ lastOp.obj >= 1
    /\ \E k \in 1..Len(svc[1].chars) : k # lastOp.obj /\ svc[1].chars[k].value # NoValue

\* C14: a readValue() whose native read returns nothing fails with
\* "Characteristic is no longer valid", and a write whose native call reports
\* failure fails with the write error of its kind; in both cases every
\* Characteristic keeps its value and no event is dispatched.
C14_FailedValueOps ==
    [][ /\ (lastOp'.op = "readValue" /\ lastOp'.val = NoValue)
              => lastOp'.outcome = "Characteristic is no longer valid"
        /\ (lastOp'.op \in { "writeValue", "writeValueWithResponse" }
                /\ lastOp'.outcome # "ok")
              => lastOp'.outcome
                    = "Error while writing a command to a characteristic"
        /\ (lastOp'.op = "writeValueWithoutResponse" /\ lastOp'.outcome # "ok")
              => lastOp'.outcome
                    = "Error while writing a request to a characteristic"
        /\ (lastOp'.op \in WriteOps \cup { "readValue" }
                /\ lastOp'.outcome # "ok")
              => (svc' = svc /\ lastOp'.events = <<>>) ]_vars

\* C14 witness: a write failed on a Characteristic that had a value.
C14_Witness ==
    /\ lastOp.op = "writeValueWithResponse"
    /\ lastOp.outcome # "ok"
    /\ nativeConnected
    /\ svc[1].chars[lastOp.obj].value # NoValue

\* C15: a Characteristic's value is the bytes of its latest successful read,
\* write or notification and undefined before the first: each successful
\* read or write leaves the bytes read or written, each delivered
\* notification leaves the bytes the peripheral sent, a new Characteristic
\* has no value, and nothing else changes a value; likewise for the reads
\* and writes of a Descriptor.
C15_ValueIsLatest ==
    [][ /\ (lastOp'.op \in WriteOps \cup { "readValue" }
                /\ lastOp'.outcome = "ok")
              => svc'[1].chars[lastOp'.obj].value = lastOp'.val
        /\ (lastOp'.op = "onNotify" /\ lastOp'.obj >= 1)
              => svc'[1].chars[lastOp'.obj].value = notes[1].sent
        /\ (lastOp'.op \in { "Descriptor.readValue", "Descriptor.writeValue" })
              => dsc'[1].value = IF lastOp'.outcome = "ok" THEN lastOp'.val
                                 ELSE dsc[1].value
        /\ (svc # <<>> /\ svc' # <<>>
                /\ lastOp'.op # "new BluetoothRemoteGATTService")
              => \A k \in 1..Len(svc'[1].chars) :
                    \/ ( /\ k = lastOp'.obj
                         /\ lastOp'.op \in WriteOps \cup { "readValue", "onNotify" }
                         /\ lastOp'.outcome = "ok" )
                    \/ svc'[1].chars[k].value
                          = IF k <= Len(svc[1].chars)
                            THEN svc[1].chars[k].value ELSE NoValue ]_vars

\* C16: when stopNotifications() returns on a connected device, the native
\* subscription of the characteristic is gone and no notification of it is
\* still queued, so that none can change the value or dispatch an event
\* before the next startNotifications().
C16_StopEndsNotifications ==
    (lastOp.op = "stopNotifications" /\ lastOp.outcome = "ok")
        => /\ subs[svc[1].native] = <<>>
           /\ \A n \in 1..Len(notes) : notes[n].native # svc[1].native

\* The scan results of the last request that its filter let through, by
\* index, as _filterDevice computes it.
Passing ==
    { i \in 1..Len(request.results) :
        filterCb(request, RequestDeviceInfo(request.results[i])) = "true" }

\* The filter of the last request threw on none of its scan results.
FilterRan ==
    \A i \in 1..Len(request.results) :
        filterCb(request, RequestDeviceInfo(request.results[i]))
            \in { "true", "false" }

First(S) == CHOOSE i \in S : \A j \in S : i <= j

\* C17: requestDevice runs one scan cycle and resolves to the first scan
\* result that passes the filter, which it appends to the registry; when no
\* result passes, it fails with "requestDevice error: no devices found" and
\* leaves the registry as it was.
C17_RequestDeviceFirstMatch ==
    [][ (lastOp'.op = "requestDevice" /\ FilterRan')
        => /\ SubSeq(lastOp'.calls, 1, 2) =
                << "simpleble_adapter_scan_start", "simpleble_adapter_scan_stop" >>
           /\ Passing' # {}
              => LET d == BluetoothDevice(request'.results[First(Passing')])
                 IN  /\ lastOp'.outcome = "ok"
                     /\ lastOp'.result = << d >>
                     /\ devices' = Append(devices, d)
           /\ Passing' = {}
              => /\ lastOp'.outcome = "requestDevice error: no devices found"
                 /\ lastOp'.result = <<>>
                 /\ devices' = devices ]_vars

\* C17 witness: requestDevice resolved to the second of two scan results,
\* the first one having failed the filter, with a device in the registry
\* before it.
C17_Witness ==
    /\ lastOp.op = "requestDevice"
    /\ lastOp.outcome = "ok"
    /\ Len(request.results) = 2
    /\ Passing = { 2 }
    /\ Len(devices) = 2
    /\ devices[2].name = WidgetA
    /\ request.filters = << Filter(NoName, Widget, NoData, FALSE) >>

\* C18: requestDevices resolves to all the scan results of its scan cycle
\* that pass the filter, in order, and appends all of them to the registry.
C18_RequestDevicesAllMatches ==
    (lastOp.op = "requestDevices" /\ FilterRan /\ Passing # {})
    => LET k == Cardinality(Passing)
       IN  /\ lastOp.outcome = "ok"
           /\ Len(lastOp.result) = k
           /\ \A i \in Passing :
                \E j \in 1..Len(lastOp.result) :
                    lastOp.result[j] = BluetoothDevice(request.results[i])
           /\ Len(devices) >= k
           /\ SubSeq(devices, Len(devices) - k + 1, Len(devices)) = lastOp.result

\* C19: the registry holds no two devices with the same id, and getDevices
\* resolves to the registry.
C19_RegistryUniqueById ==
    /\ \A i, j \in 1..Len(devices) : devices[i].id = devices[j].id => i = j
    /\ lastOp.op = "getDevices" => lastOp.result = devices

\* The claim's reading of a filter, for a scan result d and the bytes it
\* advertises: every entry of manufacturerData is found in the candidate's
\* manufacturer data, and every given field holds.
EntrySatisfied(advertised, entry) ==
    /\ MapHas(advertised, entry.companyIdentifier)
    /\ startsWith(MapGet(advertised, entry.companyIdentifier), entry.dataPrefix)

FieldsSatisfied(f, d) ==
    /\ f.name # NoName => f.name = d.identifier
    /\ f.namePrefix # NoName
       => d.identifier # NoName /\ startsWith(d.identifier, f.namePrefix)
    /\ f.manufacturerData # NoData
       => \A e \in 1..Len(f.manufacturerData) :
            EntrySatisfied(d.manufacturerData, f.manufacturerData[e])

\* Requests that do not filter by services and whose data prefixes have at
\* most one byte and are not longer than the bytes of a candidate: the
\* first byte of a view is the first advertised byte.
Structured ==
    \A k \in 1..Len(request.filters) :
        LET f == request.filters[k]
        IN  /\ ~f.services
            /\ f.manufacturerData # NoData
               => \A e \in 1..Len(f.manufacturerData), i \in 1..Len(request.results) :
                    LET entry == f.manufacturerData[e]
                        map == request.results[i].manufacturerData
                    IN  /\ Len(entry.dataPrefix) <= 1
                        /\ MapHas(map, entry.companyIdentifier)
                           => Len(entry.dataPrefix)
                                <= Len(MapGet(map, entry.companyIdentifier))

\* C20: a candidate matches iff at least one filter of the list has all of
\* its given fields satisfied by it: a request resolves to the first scan
\* result for which that holds, and finds no device when there is none.
C20_FilterMatching ==
    (lastOp.op \in { "requestDevice", "requestDevices" } /\ Structured)
    => LET matching ==
               { i \in 1..Len(request.results) :
                   \E k \in 1..Len(request.filters) :
                       FieldsSatisfied(request.filters[k], request.results[i]) }
       IN  IF matching = {} THEN lastOp.result = <<>>
           ELSE /\ lastOp.result # <<>>
                /\ lastOp.result[1] = BluetoothDevice(request.results[First(matching)])

\* C21: a request whose structured filters have a services field fails with
\* "Filtering by services is not supported yet", whatever the scan cycle
\* reports.
C21_ServicesUnsupported ==
    ( /\ lastOp.op \in { "requestDevice", "requestDevices" }
      /\ \E k \in 1..Len(request.filters) : request.filters[k].services )
    => lastOp.outcome = ServicesUnsupported

\* The last request had one filter with nothing but one manufacturerData
\* entry, and its scan cycle reported one peripheral.
OneEntryRequest ==
    /\ lastOp.op \in { "requestDevice", "requestDevices" }
    /\ Len(request.results) = 1
    /\ Len(request.filters) = 1
    /\ request.filters[1].name = NoName
    /\ request.filters[1].namePrefix = NoName
    /\ ~request.filters[1].services
    /\ request.filters[1].manufacturerData # NoData
    /\ Len(request.filters[1].manufacturerData) = 1

\* C22: a candidate matches a manufacturerData filter entry iff the bytes it
\* advertised for the entry's company start with the entry's dataPrefix
\* (any bytes, when no dataPrefix is given); advertised bytes shorter than
\* the dataPrefix are a non-match, not an error.
C22_ManufacturerDataEntry ==
    OneEntryRequest
    => IF EntrySatisfied(request.results[1].manufacturerData,
                         request.filters[1].manufacturerData[1])
       THEN /\ lastOp.outcome = "ok"
            /\ lastOp.result = << BluetoothDevice(request.results[1]) >>
       ELSE lastOp.outcome = NoDevicesFound(lastOp.op)

\* UUID arguments spelled otherwise than the binding reports the UUID: as a
\* 16-bit number or as a standard name.
OtherSpellings == { "0x180a", "model_number_string", "0x2902" }

\* C29: a lookup compares UUIDs in canonical form: on a connected device a
\* lookup by a UUID in another spelling than the binding's, which exactly
\* one object of the peripheral carries, resolves to that object.
C29_NormalizedLookups ==
    ( /\ lastOp.op \in DiscoveryOps
      /\ lastOp.pre /\ nativeConnected
      /\ lastOp.arg \in OtherSpellings )
    => LET u == CASE lastOp.op \in { "getPrimaryService", "getPrimaryServices" }
                       -> getServiceUUID(lastOp.arg)
                  [] lastOp.op \in { "getCharacteristic", "getCharacteristics" }
                       -> getCharacteristicUUID(lastOp.arg)
                  [] OTHER -> getDescriptorUUID(lastOp.arg)
           n == CASE lastOp.op \in { "getPrimaryService", "getPrimaryServices" }
                       -> Matching(u)
                  [] lastOp.op \in { "getCharacteristic", "getCharacteristics" }
                       -> MatchingChars(u)
                  [] lastOp.op \in { "getDescriptor", "getDescriptors" }
                       -> MatchingDescriptors(lastOp.obj, u)
                  [] OTHER -> 0
       IN  n = 1 => /\ lastOp.outcome = "ok"
                    /\ Len(lastOp.result) = 1
                    /\ lastOp.result[1].uuid = u

\* C30: forget() on a device that a request added to the registry succeeds
\* and removes the device: the registry holds no device with its id any more.
C30_ForgetRemoves ==
    lastOp.op = "forget"
    => /\ lastOp.outcome = "ok"
       /\ \A j \in 1..Len(devices) : devices[j].id # lastOp.arg

\* C27: constructing the Hub with no adapter fails with "no adapters found"
\* and leaves a Hub on which no operation runs; with n >= 1 adapters the
\* construction succeeds, adapter 0 is the selected one, and getAdapters
\* lists the n adapters, the adapter of handle i at index i.
C27_Construction ==
    /\ lastOp.op = "new Bluetooth"
       => IF lastOp.obj = 0
          THEN /\ lastOp.outcome = NoAdapters
               /\ ~hub.usable
          ELSE /\ lastOp.outcome = "ok"
               /\ hub.usable
               /\ hub.adapter = 0
               /\ Len(hub.adapters) = lastOp.obj
    /\ ~hub.usable => lastOp.op \in { "new Bluetooth", "idle" }
    /\ lastOp.op = "getAdapters"
       => /\ Len(lastOp.result) = Len(scanning)
          /\ Len(lastOp.result) >= 1
          /\ \A i \in 1..Len(lastOp.result) :
                lastOp.result[i] = AdapterInfo(i - 1)

\* C27 witness: a Hub constructed with two adapters has adapter 0 selected.
C27_Witness ==
    /\ lastOp.op = "new Bluetooth"
    /\ lastOp.obj = 2
    /\ lastOp.outcome = "ok"
    /\ hub.adapter = 0
    /\ Len(hub.adapters) = 2

\* The scan results of the last step that options.filter accepts.
CustomPassing ==
    { i \in 1..Len(request.results) :
        CustomFilter(request.filter, RequestDeviceInfo(request.results[i])) = "true" }

\* C23: requestDevice, requestDevices and scan without filter and filters
\* fail with the TypeError "filter or filters must be given" and no native
\* call; with a filter function, the function alone decides: a request that
\* ran its cycle resolves to the first scan result the function accepts and
\* fails with "no devices found" when it accepts none, and scan yields only
\* devices the function accepts, whatever options.filters says.
C23_FilterOptions ==
    lastOp.op \in Requests \cup { "scan" }
    => /\ (request.filter = Undefined /\ request.filters = NoFilters)
          => /\ lastOp.outcome = InvalidOptions
             /\ lastOp.calls = <<>>
             /\ lastOp.result = <<>>
       /\ (request.filter # Undefined /\ lastOp.op \in Requests
             /\ lastOp.calls = ScanCalls)
          => IF CustomPassing = {}
             THEN /\ lastOp.outcome = NoDevicesFound(lastOp.op)
                  /\ lastOp.result = <<>>
             ELSE /\ lastOp.outcome = "ok"
                  /\ lastOp.result =
                        << BluetoothDevice(request.results[First(CustomPassing)]) >>
       /\ (request.filter # Undefined /\ lastOp.op = "scan"
             /\ lastOp.outcome # Canceled)
          => /\ lastOp.outcome = "ok"
             /\ lastOp.result # <<>>
                => \E i \in CustomPassing :
                      lastOp.result = << BluetoothDevice(request.results[i]) >>

\* C23 witness: requestDevice with a filter function that accepts address BB
\* and with filters that name services resolved to the second of two scan
\* results, the device at address BB.
C23_Witness ==
    /\ lastOp.op = "requestDevice"
    /\ lastOp.outcome = "ok"
    /\ request.filter = "addressBB"
    /\ request.filters # NoFilters
    /\ request.filters[1].services
    /\ Len(request.results) = 2
    /\ request.results[1].address = "AA"
    /\ Len(lastOp.result) = 1
    /\ lastOp.result[1].id = "BB"

C28_InFlightAdapter ==
    (/\ lastOp.op \in Requests \cup { "_request", "scan" }
     /\ \E k \in 1..Len(lastOp.calls) :
           lastOp.calls[k] = "simpleble_adapter_scan_stop")
    => lastOp.obj = request.adapter

\* C25: a scan never yields a device with the same id twice: the ids of the
\* devices a scan has yielded are all different.
C25_ScanYieldsOnce ==
    \A f \in 1..Len(flights) :
       \A i, j \in 1..Len(flights[f].yielded) :
          i # j => flights[f].yielded[i] # flights[f].yielded[j]

\* C26: once the signal given to scan() is aborted the sequence ends: a step
\* of a scan whose signal is aborted starts no scan cycle and yields no
\* device.
C26_AbortEndsScan ==
    (lastOp.op = "scan" /\ request.signal = "aborted")
    => /\ lastOp.result = <<>>
       /\ \A k \in 1..Len(lastOp.calls) :
             lastOp.calls[k] # "simpleble_adapter_scan_start"

\* The native characteristic that the c-th Characteristic of the held
\* Service wraps.
NativeOf(c) ==
    NativeChars[CHOOSE k \in 1..Len(NativeChars) :
                    NativeChars[k].uuid = svc[1].chars[c].uuid]

\* C31: the properties of a Characteristic report the capabilities of the
\* native characteristic it wraps: read, write, writeWithoutResponse, notify
\* and indicate are what the peripheral's characteristic can do (read alone
\* for a read-only characteristic).
C31_PropertiesReportCapabilities ==
    lastOp.op = "properties"
    => LET p == lastOp.result[1]
           n == NativeOf(lastOp.obj)
       IN  /\ p.read = n.canRead
           /\ p.write = n.canWriteRequest
           /\ p.writeWithoutResponse = n.canWriteCommand
           /\ p.notify = n.canNotify
           /\ p.indicate = n.canIndicate

\* C32: a disconnection callback that sets connected to false belongs to
\* the epoch it ends: when the callback runs, the link of the current epoch
\* is down.  A callback of an earlier epoch that is still queued when the
\* server reconnects does not end the new epoch.
C32_NoStaleDisconnection ==
    [][ lastOp'.op = "onDisconnected"
        => (connected => ~nativeConnected) ]_vars

\* C33: the bytes handed to the notification callback, and stored as the
\* value of its Characteristic, are the bytes of the native notification
\* that is delivered.
C33_NotificationBytes ==
    [][ lastOp'.op = "onNotify"
        => /\ lastOp'.val = notes[1].sent
           /\ lastOp'.obj >= 1
              => svc'[1].chars[lastOp'.obj].value = notes[1].sent ]_vars

\* C35: while connected is false no notification is applied: a notification
\* callback that runs then changes no value and dispatches no
\* characteristicvaluechanged.
C35_NoNotificationWhenDisconnected ==
    [][ (lastOp'.op = "onNotify" /\ ~connected)
        => /\ svc' = svc
           /\ ValueChangedOf(lastOp'.events) = <<>> ]_vars

\* The bytes of the queued notifications, oldest first.
Sent(queue) == [ n \in 1..Len(queue) |-> queue[n].sent ]

C36_NoDeduplication ==
    (lastOp.op = "startNotifications" /\ lastOp.pre)
    => /\ lastOp.outcome = "ok"
       /\ lastOp.calls = << "simpleble_peripheral_notify" >>
       /\ lastOp.result = << svc[1].chars[lastOp.obj] >>

\* C36 witness: startNotifications() returned on a Characteristic that had
\* its subscription before the call: a notification of it is queued.
C36_Witness ==
    /\ lastOp.op = "startNotifications"
    /\ lastOp.outcome = "ok"
    /\ subs[svc[1].native] = << lastOp.obj >>
    /\ notes # <<>>
    /\ notes[1].target = << lastOp.obj >>

\* How often the event e is in events.
CountOf(events, e) == Len(SelectSeq(events, LAMBDA x : x = e))

\* C39: each successful connect() dispatches gattserverdisconnected once on
\* the Device and once on the Hub, and nothing else, with connected true,
\* before it returns; a connect() that fails dispatches nothing.
C39_ConnectEvents ==
    lastOp.op = "connect"
    => IF lastOp.outcome = "ok"
       THEN /\ connected
            /\ CountOf(lastOp.events, Ev("Device", "gattserverdisconnected")) = 1
            /\ CountOf(lastOp.events, Ev("Hub", "gattserverdisconnected")) = 1
            /\ Len(lastOp.events) = 2
       ELSE lastOp.events = <<>>

\* C39 witness: a connect() succeeded on a server that had been connected
\* before: the Service the caller holds is of the earlier epoch.
C39_Witness ==
    /\ lastOp.op = "connect"
    /\ lastOp.outcome = "ok"
    /\ svc # <<>>
    /\ svc[1].stale
    /\ Len(lastOp.events) = 2

C37_ScanYieldsEveryMatch ==
    (/\ lastOp.op = "scan"
     /\ \E k \in 1..Len(lastOp.calls) :
           lastOp.calls[k] = "simpleble_adapter_scan_start")
    => \A i \in 1..Len(request.results) :
          filterCb(request, RequestDeviceInfo(request.results[i])) = "true"
          => \E f \in 1..Len(flights) :
                /\ flights[f].kind = "scan"
                /\ flights[f].options = Options(request.filter, request.filters)
                /\ \E n \in 1..Len(flights[f].yielded) :
                      flights[f].yielded[n] = request.results[i].address

\* C38: when operations overlap on one adapter, the native scan of each
\* stays active for its whole timeout window: while an operation waits for
\* its timer the adapter it started on is scanning; and when no operation
\* is left, no adapter is scanning.
C38_OverlappingScans ==
    /\ \A f \in 1..Len(flights) :
          flights[f].pc = "delay" => scanning[flights[f].adapter + 1]
    /\ flights = <<>> => \A i \in 1..Len(scanning) : ~scanning[i]

====
